---- MODULE Spec2Model ----
(***************************************************************************)
(* Model of the fact-file synchronisers of src/pkm.                        *)
(*                                                                         *)
(* Spec: the directory watcher of filewatcher.py, i.e. the name normaliser *)
(* (format_note_name), the facts.pl helpers (load_known_notes,             *)
(* append_note, remove_note, update_rels) and the watchdog handler         *)
(* KnowledgeHandler (on_created, on_deleted, on_moved).                    *)
(*                                                                         *)
(* SpecR: the external store reconciler of neo4j_to_filesystem_watcher.py, *)
(* i.e. Neo4jWatcher with _update_state, _sync_files, _sync_facts_pl and   *)
(* the passes of _poll_loop, beside other clients changing the store.      *)
(*                                                                         *)
(* Text is modelled as it is in the program: a string is a sequence of     *)
(* one-character strings, facts.pl is the sequence of its lines (each      *)
(* line without its terminating "\n"; every writer of the file in the      *)
(* repository terminates the lines it writes).                             *)
(***************************************************************************)
EXTENDS Naturals, Sequences, FiniteSets, TLC

VARIABLES
    facts,      \* FACTS_FILE: the lines of facts.pl, in file order
    known,      \* KnowledgeHandler.known: set of 'files/<name>' strings
    ev,         \* the watchdog event handled last (NoEvent before the first)
    prevFacts,  \* facts.pl as it was when that event was delivered
    prevKnown,  \* self.known as it was when that event was delivered
    prevExists, \* FACTS_FILE.exists() when that event was delivered
    raised,     \* TRUE iff the handler of that event raised an exception
    exists,     \* FACTS_FILE.exists()
    nEvents,    \* number of events delivered so far
    store,      \* the external store: its Note nodes and relationships
    last,       \* Neo4jWatcher.last_nodes and last_rels
    fs,         \* the files under ROOT: path -> content
    tk,         \* what the last pass of _poll_loop did, and on what
    nSteps,     \* number of passes and store changes so far
    fn,         \* the call of a function made last, with its result
    th,         \* the reconciler's thread: where it is in _poll_loop
    pending,    \* the events the observer has queued for the handler
    wk          \* the Handler of watch_knowledge.py given the same events

vars == <<facts, known, ev, prevFacts, prevKnown, prevExists, raised, exists, nEvents,
          store, last, fs, tk, nSteps, fn, th, pending, wk>>

\* The variables of the function calls, the reconciler's thread, the
\* observer's queue and the second handler, and their values where these
\* play no part.
auxVars == <<fn, th, pending, wk>>
NoCall == [op |-> "none"]
NoThread == [pc |-> "none"]
NoHandler == [module |-> "none"]
Idle == fn = NoCall /\ th = NoThread /\ pending = <<>> /\ wk = NoHandler

\* ---------------------------------------------------------------- bounds
\* Events delivered in one behaviour.
MaxEvents == 2
\* note(...) lines already in facts.pl when the watcher starts.
MaxInitNotes == 2
\* Passes of the reconciler's loop and changes of the store by other
\* clients in one behaviour.
MaxSteps == 3
\* Nodes in the store when the reconciler starts.
MaxInitNodes == 2
\* Characters of a stem the normalisers are called on.
MaxStemLen == 3
\* Calls of a function on the same arguments.
MaxCalls == 2
\* Files in the watched directory when the watcher starts.
MaxDirFiles == 1

\* ------------------------------------------------------------ characters
LowerLetters == <<"a","b","c","d","e","f","g","h","i","j","k","l","m",
                  "n","o","p","q","r","s","t","u","v","w","x","y","z">>
UpperLetters == <<"A","B","C","D","E","F","G","H","I","J","K","L","M",
                  "N","O","P","Q","R","S","T","U","V","W","X","Y","Z">>
Digits == {"0","1","2","3","4","5","6","7","8","9"}

Range(s) == { s[i] : i \in DOMAIN s }

\* LOWERCASE = re.compile(r"[a-z]")
LOWERCASE(c) == c \in Range(LowerLetters)

\* A letter outside ASCII, in its two cases.  Python's str patterns and
\* str methods are Unicode-aware: \w takes it, [a-z] does not.
E_ACUTE == "é"
E_ACUTE_UPPER == "É"

\* The regex class \w (letters, digits, underscore); \W is its complement.
IsWordChar(c) ==
    c \in Range(LowerLetters) \cup Range(UpperLetters) \cup Digits
            \cup {"_", E_ACUTE, E_ACUTE_UPPER}

\* The whitespace str.strip() and the regex class \s remove.
IsSpace(c) == c \in {" ", "\t"}

\* str.lower() on one character.
LowerChar(c) ==
    IF c \in Range(UpperLetters)
    THEN LowerLetters[CHOOSE i \in DOMAIN UpperLetters : UpperLetters[i] = c]
    ELSE IF c = E_ACUTE_UPPER THEN E_ACUTE ELSE c

\* ---------------------------------------------------------- str helpers
\* s[i:] of Python, for the 1-based index i.
From(s, i) == SubSeq(s, i, Len(s))

\* s.startswith(p)
StartsWith(s, p) == Len(s) >= Len(p) /\ SubSeq(s, 1, Len(p)) = p

\* p occurs in s at the 1-based index i.
OccursAt(s, p, i) == i + Len(p) - 1 <= Len(s) /\ SubSeq(s, i, i + Len(p) - 1) = p

\* the Python test  p in s  on strings (substring containment).
Contains(s, p) == \E i \in 1..(Len(s) + 1) : OccursAt(s, p, i)

\* str.lower()
lower(s) == [i \in DOMAIN s |-> LowerChar(s[i])]

\* s.lstrip(chars) / s.rstrip(chars) / s.strip(chars) for a set of characters.
RECURSIVE lstrip(_, _)
lstrip(s, chars) ==
    IF s # <<>> /\ Head(s) \in chars THEN lstrip(Tail(s), chars) ELSE s

RECURSIVE rstrip(_, _)
rstrip(s, chars) ==
    IF s # <<>> /\ s[Len(s)] \in chars
    THEN rstrip(SubSeq(s, 1, Len(s) - 1), chars) ELSE s

strip(s, chars) == rstrip(lstrip(s, chars), chars)

\* re.sub(r"\W+", "_", s): every maximal run of non-word characters
\* becomes one underscore.
RECURSIVE SubNonWordRuns(_)
SubNonWordRuns(s) ==
    IF s = <<>> THEN <<>>
    ELSE IF IsWordChar(Head(s)) THEN <<Head(s)>> \o SubNonWordRuns(Tail(s))
    ELSE <<"_">> \o SubNonWordRuns(lstrip(s, {c \in Range(s) : ~IsWordChar(c)}))

\* ------------------------------------------------------- name normaliser
to_snake_case(s) == lower(strip(SubNonWordRuns(s), {"_"}))

\* format_note_name indexes snaked[0]: an IndexError when snaked is empty.
format_note_name_raises(name) == to_snake_case(name) = <<>>

format_note_name(name) ==
    LET snaked == to_snake_case(name)
    IN  IF ~LOWERCASE(snaked[1]) THEN <<"n","n","_">> \o snaked ELSE snaked

\* the last index of "." in s, 0 when there is none (str.rfind + 1).
RECURSIVE rfindDot(_)
rfindDot(s) ==
    IF s = <<>> THEN 0
    ELSE IF s[Len(s)] = "." THEN Len(s)
    ELSE rfindDot(SubSeq(s, 1, Len(s) - 1))

\* pathlib.PurePath.stem of a file name: the name without its last suffix;
\* a leading dot or a trailing dot starts no suffix.
stem(name) ==
    LET i == rfindDot(name)
    IN  IF 1 < i /\ i < Len(name) THEN SubSeq(name, 1, i - 1) ELSE name

\* --------------------------------------------------------- file names
\* The names of the model's files.  A.md and a.txt normalise to the same
\* id; 'files/A.md' is a prefix of 'files/A.md.x'; ._B.md is a hidden file;
\* the stem of -.md normalises to the empty string.
nA   == <<"A", ".", "m", "d">>
nAt  == <<"a", ".", "t", "x", "t">>
nAx  == <<"A", ".", "m", "d", ".", "x">>
nHid == <<".", "_", "B", ".", "m", "d">>
nBad == <<"-", ".", "m", "d">>

Names == {nA, nAt, nAx, nHid, nBad}

\* KNOWLEDGE_DIR and any other directory, as the parent of an event's path.
KNOWLEDGE_DIR == "files"
ELSEWHERE == "elsewhere"

\* f"files/{file_name}"
FilesPath(file_name) == <<"f","i","l","e","s","/">> \o file_name

\* ------------------------------------------------------ facts.pl lines
\* f"note({note_name}, 'files/{file_name}')."
NoteLine(note_name, file_name) ==
    <<"n","o","t","e","(">> \o note_name \o <<",", " ", "'">>
        \o FilesPath(file_name) \o <<"'", ")", ".">>

\* f"rel({from_id}, {to_id}, '{label}')."
RelLine(from_id, to_id, label) ==
    <<"r","e","l","(">> \o from_id \o <<",", " ">> \o to_id
        \o <<",", " ", "'">> \o label \o <<"'", ")", ".">>

\* f"tag({id}, {atom})."
TagLine(id, atom) ==
    <<"t","a","g","(">> \o id \o <<",", " ">> \o atom \o <<")", ".">>

\* the first index of character c in s, 0 when there is none.
RECURSIVE IndexOf(_, _)
IndexOf(s, c) ==
    IF s = <<>> THEN 0
    ELSE IF Head(s) = c THEN 1
    ELSE LET r == IndexOf(Tail(s), c) IN IF r = 0 THEN 0 ELSE r + 1

\* NOTE_RE = re.compile(r"note\([^,]+,\s*'([^']+)'\)\.") applied with
\* NOTE_RE.match(line.strip()): anchored at the start, not at the end.
\* The result is [ok, id, path]: whether it matches, the text [^,]+ took
\* and group(1).
NOTE_RE_match(line) ==
    LET s      == strip(line, {c \in Range(line) : IsSpace(c)})
        nomatch == [ok |-> FALSE, id |-> <<>>, path |-> <<>>]
    IN  IF ~StartsWith(s, <<"n","o","t","e","(">>) THEN nomatch
        ELSE
        LET rest  == From(s, 6)
            comma == IndexOf(rest, ",")
        IN  IF comma < 2 THEN nomatch
            ELSE
            LET after == lstrip(From(rest, comma + 1),
                                {c \in Range(rest) : IsSpace(c)})
            IN  IF after = <<>> \/ Head(after) # "'" THEN nomatch
                ELSE
                LET body  == Tail(after)
                    quote == IndexOf(body, "'")
                IN  IF quote < 2 THEN nomatch
                    ELSE IF ~StartsWith(From(body, quote + 1), <<")", ".">>)
                    THEN nomatch
                    ELSE [ok   |-> TRUE,
                          id   |-> SubSeq(rest, 1, comma - 1),
                          path |-> SubSeq(body, 1, quote - 1)]

\* load_known_notes(): group(1) of every matching line; the empty set when
\* facts.pl does not exist.
load_known_notes(lines, fileExists) ==
    IF fileExists
    THEN { NOTE_RE_match(lines[i]).path :
             i \in { j \in DOMAIN lines : NOTE_RE_match(lines[j]).ok } }
    ELSE {}

\* append_note(file_name): open("a") creates the file and adds one line.
append_note(lines, file_name) ==
    Append(lines, NoteLine(format_note_name(stem(file_name)), file_name))

\* remove_note(file_name): writes back every line that does not contain
\* the target as a substring.
Keeps(line, target) == ~Contains(line, target)

remove_note(lines, file_name) ==
    LET target == FilesPath(file_name)
    IN  SelectSeq(lines, LAMBDA line : Keeps(line, target))

\* re.compile(rf"\b{re.escape(old)}\b") matches at index i of line.
PatMatchAt(line, old, i) ==
    /\ OccursAt(line, old, i)
    /\ (i = 1 \/ ~IsWordChar(line[i - 1]))
    /\ (i + Len(old) > Len(line) \/ ~IsWordChar(line[i + Len(old)]))

\* pat.search(line)
PatSearch(line, old) == \E i \in DOMAIN line : PatMatchAt(line, old, i)

\* pat.sub(new, line), from index i on: matches are replaced left to right.
RECURSIVE PatSub(_, _, _, _)
PatSub(line, old, new, i) ==
    IF i > Len(line) THEN <<>>
    ELSE IF PatMatchAt(line, old, i)
         THEN new \o PatSub(line, old, new, i + Len(old))
         ELSE <<line[i]>> \o PatSub(line, old, new, i + 1)

\* the test of update_rels that selects the lines it rewrites.
IsRelLine(line) == StartsWith(line, <<"r","e","l","(">>)

\* update_rels(old, new): every line is written back, the rel( lines with
\* old replaced by new.
update_rels(lines, old, new) ==
    [i \in DOMAIN lines |->
        IF IsRelLine(lines[i]) /\ PatSearch(lines[i], old)
        THEN PatSub(lines[i], old, new, 1)
        ELSE lines[i]]

\* --------------------------------------------------- KnowledgeHandler
\* A handler works on st = [facts, exists, known, raised] and returns the
\* record after it; raised = TRUE stands for an exception leaving it.

\* KnowledgeHandler._ignore: p.name.startswith(("._", ".DS_Store"))
ignore(name) ==
    \/ StartsWith(name, <<".", "_">>)
    \/ StartsWith(name, <<".", "D", "S", "_", "S", "t", "o", "r", "e">>)

\* A faulty _maybe_add that forgets self.known.add(rel); C5 tells it from
\* maybe_add.
maybe_add_forgets_known(st, name) ==
    IF ignore(name) THEN st
    ELSE IF FilesPath(name) \in st.known THEN st
    ELSE IF format_note_name_raises(stem(name)) THEN [st EXCEPT !.raised = TRUE]
    ELSE [st EXCEPT !.facts  = append_note(st.facts, name),
                    !.exists = TRUE]

\* A faulty _maybe_add that looks up p.name instead of rel in self.known, so
\* that it appends on every call; C7 tells it from maybe_add.
maybe_add_wrong_key(st, name) ==
    IF ignore(name) THEN st
    ELSE IF name \in st.known THEN st
    ELSE IF format_note_name_raises(stem(name)) THEN [st EXCEPT !.raised = TRUE]
    ELSE [st EXCEPT !.facts  = append_note(st.facts, name),
                    !.exists = TRUE,
                    !.known  = st.known \cup {FilesPath(name)}]

\* KnowledgeHandler._maybe_add; append_note raises before it writes when
\* the stem has no word character.
maybe_add(st, name) ==
    IF ignore(name) THEN st
    ELSE IF FilesPath(name) \in st.known THEN st
    ELSE IF format_note_name_raises(stem(name)) THEN [st EXCEPT !.raised = TRUE]
    ELSE [st EXCEPT !.facts  = append_note(st.facts, name),
                    !.exists = TRUE,
                    !.known  = st.known \cup {FilesPath(name)}]

\* A faulty _maybe_remove that forgets self.known.remove(rel); C6 tells it
\* from maybe_remove.
maybe_remove_keeps_known(st, name) ==
    IF ignore(name) THEN st
    ELSE IF FilesPath(name) \notin st.known THEN st
    ELSE [st EXCEPT !.facts = IF st.exists THEN remove_note(st.facts, name) ELSE @]

\* KnowledgeHandler._maybe_remove; remove_note returns at once when
\* facts.pl does not exist.
maybe_remove(st, name) ==
    IF ignore(name) THEN st
    ELSE IF FilesPath(name) \notin st.known THEN st
    ELSE [st EXCEPT !.facts = IF st.exists THEN remove_note(st.facts, name) ELSE @,
                    !.known = st.known \ {FilesPath(name)}]

\* KnowledgeHandler.on_created
on_created(st, e) ==
    IF e.is_directory THEN st ELSE maybe_add(st, e.src.name)

\* KnowledgeHandler.on_deleted
on_deleted(st, e) ==
    IF e.is_directory THEN st ELSE maybe_remove(st, e.src.name)

\* (a variant that computes the id of dst only when it appends its line)
rename_within_removes_first(st, src, dst) ==
    IF format_note_name_raises(stem(src)) THEN [st EXCEPT !.raised = TRUE]
    ELSE LET s1 == maybe_remove(st, src) IN
         IF format_note_name_raises(stem(dst)) THEN [s1 EXCEPT !.raised = TRUE]
         ELSE maybe_add([s1 EXCEPT !.facts =
                           IF s1.exists
                           THEN update_rels(s1.facts, format_note_name(stem(src)),
                                            format_note_name(stem(dst)))
                           ELSE @], dst)

\* the branch of on_moved for a rename within KNOWLEDGE_DIR: both ids are
\* computed first, then _maybe_remove(src); update_rels(old, new);
\* _maybe_add(dst).
rename_within(st, src, dst) ==
    IF format_note_name_raises(stem(src)) \/ format_note_name_raises(stem(dst))
    THEN [st EXCEPT !.raised = TRUE]
    ELSE LET old == format_note_name(stem(src))
             new == format_note_name(stem(dst))
             s1  == maybe_remove(st, src)
             s2  == [s1 EXCEPT !.facts = IF s1.exists
                                         THEN update_rels(s1.facts, old, new)
                                         ELSE @]
         IN  maybe_add(s2, dst)

\* A faulty on_moved that takes the rename branch when either endpoint
\* (instead of both) is in KNOWLEDGE_DIR; C9 tells it from on_moved.
on_moved_either_inside(st, e) ==
    IF e.is_directory THEN st
    ELSE IF e.src.parent = KNOWLEDGE_DIR \/ e.dest.parent = KNOWLEDGE_DIR
    THEN rename_within(st, e.src.name, e.dest.name)
    ELSE st

\* KnowledgeHandler.on_moved
on_moved(st, e) ==
    IF e.is_directory THEN st
    ELSE IF e.src.parent = KNOWLEDGE_DIR /\ e.dest.parent = KNOWLEDGE_DIR
    THEN rename_within(st, e.src.name, e.dest.name)
    ELSE LET s1 == IF e.dest.parent = KNOWLEDGE_DIR
                   THEN maybe_add(st, e.dest.name) ELSE st
         IN  IF s1.raised THEN s1
             ELSE IF e.src.parent = KNOWLEDGE_DIR
                  THEN maybe_remove(s1, e.src.name) ELSE s1

\* watchdog's dispatch of an event to its callback.
dispatch(st, e) ==
    CASE e.type = "created" -> on_created(st, e)
      [] e.type = "deleted" -> on_deleted(st, e)
      [] e.type = "moved"   -> on_moved(st, e)

\* ------------------------------------------------------------- events
Path(parent, name) == [parent |-> parent, name |-> name]

Event(type, isDir, src, dest) ==
    [type |-> type, is_directory |-> isDir, src |-> src, dest |-> dest]

NoEvent == [type |-> "none", is_directory |-> FALSE,
            src |-> Path(ELSEWHERE, <<>>), dest |-> Path(ELSEWHERE, <<>>)]

\* Directory events return at once whatever the name; one name stands for
\* all directories.
DirNames == {nAt}

\* FileCreatedEvent / DirCreatedEvent of the non-recursive watch.
CreatedEvents ==
    { Event("created", FALSE, Path(KNOWLEDGE_DIR, n), Path(KNOWLEDGE_DIR, n)) : n \in Names }
    \cup
    { Event("created", TRUE, Path(KNOWLEDGE_DIR, n), Path(KNOWLEDGE_DIR, n)) : n \in DirNames }

\* FileDeletedEvent / DirDeletedEvent
DeletedEvents ==
    { Event("deleted", FALSE, Path(KNOWLEDGE_DIR, n), Path(KNOWLEDGE_DIR, n)) : n \in Names }
    \cup
    { Event("deleted", TRUE, Path(KNOWLEDGE_DIR, n), Path(KNOWLEDGE_DIR, n)) : n \in DirNames }

\* The names a file has outside KNOWLEDGE_DIR before it is moved in or
\* after it is moved out.
OutsideNames == {nA, nHid}

\* FileMovedEvent / DirMovedEvent: a rename within KNOWLEDGE_DIR, a move
\* into it and a move out of it.
MovedEvents ==
    { Event("moved", FALSE, Path(KNOWLEDGE_DIR, s), Path(KNOWLEDGE_DIR, d)) :
        <<s, d>> \in { p \in Names \X Names : p[1] # p[2] } }
    \cup
    { Event("moved", FALSE, Path(ELSEWHERE, o), Path(KNOWLEDGE_DIR, n)) :
        <<o, n>> \in OutsideNames \X Names }
    \cup
    { Event("moved", FALSE, Path(KNOWLEDGE_DIR, n), Path(ELSEWHERE, o)) :
        <<o, n>> \in OutsideNames \X Names }
    \cup
    { Event("moved", TRUE, Path(KNOWLEDGE_DIR, n), Path(KNOWLEDGE_DIR, nA)) : n \in DirNames }

\* --------------------------------------------------------------- Init
\* The ids the rel lines of the initial facts.pl name: a, b and a_md.
idA   == format_note_name(stem(nA))
idB   == format_note_name(stem(nHid))
idAx  == format_note_name(stem(nAx))

\* Lines of a facts.pl the watcher starts on: note lines it wrote in an
\* earlier run, hand-written rel and tag lines.  The label of the second
\* rel line holds the word a and the path of A.md.  An initial file is any
\* selection of these lines, in this order, with at most MaxInitNotes note
\* lines, no two of them for the same id.
InitPool ==
    << NoteLine(format_note_name(stem(nA)), nA),
       RelLine(idA, idB, <<"x">>),
       NoteLine(format_note_name(stem(nAt)), nAt),
       RelLine(idB, idAx, <<"a", " ">> \o FilesPath(nA)),
       NoteLine(format_note_name(stem(nAx)), nAx),
       TagLine(idA, <<"t">>) >>

InitFiles ==
    { SelectSeq(InitPool, LAMBDA l : l \in S) :
        S \in { T \in SUBSET Range(InitPool) :
                  LET notes == { l \in T : NOTE_RE_match(l).ok }
                  IN  /\ Cardinality(notes) <= MaxInitNotes
                      /\ \A l1, l2 \in notes :
                            NOTE_RE_match(l1).id = NOTE_RE_match(l2).id => l1 = l2 } }

\* main(): known = load_known_notes(), then the observer starts.
Init ==
    /\ exists \in BOOLEAN
    /\ facts \in (IF exists THEN InitFiles ELSE {<<>>})
    /\ known = load_known_notes(facts, exists)
    /\ ev = NoEvent
    /\ prevFacts = facts
    /\ prevKnown = known
    /\ prevExists = exists
    /\ raised = FALSE
    /\ nEvents = 0
    /\ store = [nodes |-> [x \in {} |-> x], rels |-> {}]
    /\ last = store
    /\ fs = [x \in {} |-> x]
    /\ tk = [kind |-> "none"]
    /\ nSteps = 0
    /\ Idle

\* ------------------------------------------------------------ actions
\* The callback of event e runs on the state, to its end.
Dispatch(e) ==
    /\ \E r \in {dispatch([facts |-> facts, exists |-> exists,
                            known |-> known, raised |-> FALSE], e)} :
           /\ facts' = r.facts
           /\ exists' = r.exists
           /\ known' = r.known
           /\ raised' = r.raised
    /\ ev' = e
    /\ prevFacts' = facts
    /\ prevKnown' = known
    /\ prevExists' = exists

\* The observer thread delivers event e to its callback.  An exception
\* that leaves the callback ends the observer thread: no event is
\* delivered after it.
Deliver(e) ==
    /\ nEvents < MaxEvents
    /\ ~raised
    /\ Dispatch(e)
    /\ nEvents' = nEvents + 1
    /\ UNCHANGED <<store, last, fs, tk, nSteps>>
    /\ UNCHANGED auxVars

OnCreated == \E e \in CreatedEvents : Deliver(e)

OnDeleted == \E e \in DeletedEvents : Deliver(e)

OnMoved == \E e \in MovedEvents : Deliver(e)

Next == OnCreated \/ OnDeleted \/ OnMoved

Spec == Init /\ [][Next]_vars

\* =====================================================================
\* External store reconciler: Neo4jWatcher of
\* src/pkm/neo4j_to_filesystem_watcher.py
\* =====================================================================
\* Python's None.  No string of the program equals it: a string is a
\* sequence of one-character strings.
None == <<"None">>

\* the truth value of a path: None and "" are false.
Truthy(path) == path # None /\ path # <<>>

\* str(v) as an f-string formats v.
str(v) == IF v = None THEN <<"N","o","n","e">> ELSE v

\* The dict with no key.
EmptyMap == [x \in {} |-> x]

\* ------------------------------------------------- more str operations
\* str.upper() on one character.
UpperChar(c) ==
    IF c \in Range(LowerLetters)
    THEN UpperLetters[CHOOSE i \in DOMAIN LowerLetters : LowerLetters[i] = c]
    ELSE IF c = E_ACUTE THEN E_ACUTE_UPPER ELSE c

\* str.capitalize(): the first character upper-cased, the rest lower-cased.
capitalize(s) ==
    IF s = <<>> THEN s ELSE <<UpperChar(Head(s))>> \o lower(Tail(s))

\* str.isdigit(): non-empty and all digits.
isdigit(s) == s # <<>> /\ \A i \in DOMAIN s : s[i] \in Digits

\* s.split(sep) for a one-character separator.
RECURSIVE split(_, _)
split(s, sep) ==
    LET k == IndexOf(s, sep)
    IN  IF k = 0 THEN <<s>>
        ELSE <<SubSeq(s, 1, k - 1)>> \o split(From(s, k + 1), sep)

\* sep.join(parts)
RECURSIVE join(_, _)
join(parts, sep) ==
    IF parts = <<>> THEN <<>>
    ELSE IF Len(parts) = 1 THEN parts[1]
    ELSE parts[1] \o sep \o join(Tail(parts), sep)

\* s.replace(old, new) for one-character old and new.
replace(s, old, new) == [i \in DOMAIN s |-> IF s[i] = old THEN new ELSE s[i]]

\* The characters of the model's ids, paths and relationship types in
\* code point order: Python compares strings by code point.
CodePoints ==
    <<" ", "'", "(", ")", ",", "-", ".", "/",
      "0","1","2","3","4","5","6","7","8","9", ":">>
    \o UpperLetters \o <<"_">> \o LowerLetters

Ord(c) == CHOOSE i \in DOMAIN CodePoints : CodePoints[i] = c

\* s < t on strings.
RECURSIVE StrLess(_, _)
StrLess(s, t) ==
    IF t = <<>> THEN FALSE
    ELSE IF s = <<>> THEN TRUE
    ELSE IF Head(s) = Head(t) THEN StrLess(Tail(s), Tail(t))
    ELSE Ord(Head(s)) < Ord(Head(t))

\* a < b on tuples of strings: the first differing component decides.
RECURSIVE TupleLess(_, _)
TupleLess(a, b) ==
    IF b = <<>> THEN FALSE
    ELSE IF a = <<>> THEN TRUE
    ELSE IF Head(a) = Head(b) THEN TupleLess(Tail(a), Tail(b))
    ELSE StrLess(Head(a), Head(b))

\* sorted(items) for a list of tuples of strings: a stable sort; each item
\* goes behind the items that are not greater.
RECURSIVE InsertSorted(_, _)
InsertSorted(x, s) ==
    IF s = <<>> THEN <<x>>
    ELSE IF TupleLess(x, Head(s)) THEN <<x>> \o s
    ELSE <<Head(s)>> \o InsertSorted(x, Tail(s))

\* Variant: the list is used in the order it comes in.
sorted_as_given(items) == items

RECURSIVE sorted(_)
sorted(items) ==
    IF items = <<>> THEN <<>>
    ELSE InsertSorted(items[Len(items)], sorted(SubSeq(items, 1, Len(items) - 1)))

\* ------------------------------------------------------- denormaliser
\* _unsnake_to_filename(id): no caller passes existing_path, so ext is ""
\* and the name ends in ".txt".
unsnake_to_filename(id) ==
    LET name  == IF StartsWith(id, <<"n","n","_">>) THEN From(id, 4) ELSE id
        parts == split(name, "_")
        named == IF Len(parts) = 3 /\ \A i \in 1..3 : isdigit(parts[i])
                 THEN join(parts, <<"-">>)
                 ELSE join([i \in DOMAIN parts |-> capitalize(parts[i])], <<" ">>)
    IN  named \o <<".", "t", "x", "t">>

\* f"files/{filename}" for the synthesized file name of a node.
SynthPath(node_id) == FilesPath(unsnake_to_filename(node_id))

\* ------------------------------------------------------ external store
\* The ids of the store's Note nodes, the paths the store's other writers
\* give a node, and the relationship types.
NodeIds == {idA, idAx}
StorePaths == {FilesPath(nA), FilesPath(nAt)}
LINKS_TO == <<"L","I","N","K","S","_","T","O">>
RelPool == { <<idA, idAx, LINKS_TO>>, <<idAx, idA, LINKS_TO>> }

\* The store with no node.
EmptyStore == [nodes |-> EmptyMap, rels |-> {}]

\* The sequences that hold each element of S once: the orders a dict or
\* a set of S can be iterated in.
Orders(S) ==
    { o \in [1..Cardinality(S) -> S] : \A i, j \in DOMAIN o : o[i] = o[j] => i = j }

\* _query_nodes(): id -> {"path": n.path, "props": properties(n)}.
query_nodes(st) ==
    [id \in DOMAIN st.nodes |->
        [path  |-> st.nodes[id].path,
         props |-> [id |-> id, path |-> st.nodes[id].path,
                    title |-> st.nodes[id].title]]]

\* _query_relationships(): the set of (from_id, to_id, type(r)).
query_relationships(st) == st.rels

\* MATCH (n:Note {id: $id}) SET n.path = $path
set_path(st, id, path) ==
    IF id \in DOMAIN st.nodes
    THEN [st EXCEPT !.nodes[id].path = path]
    ELSE st

\* ---------------------------------------------------------- file system
\* The files under ROOT: path -> content.  A file created by touch() is
\* empty.
EMPTY == <<>>

path_exists(files, p) == p \in DOMAIN files

touch(files, p) ==
    [q \in DOMAIN files \cup {p} |-> IF q = p /\ q \notin DOMAIN files THEN EMPTY ELSE files[q]]

rename(files, old, new) ==
    [q \in (DOMAIN files \ {old}) \cup {new} |-> IF q = new THEN files[old] ELSE files[q]]

\* ------------------------------------------------------------ _sync_files
\* session.run("MATCH (n:Note {id: $id}) SET n.path = $path", ...)
write_path(w, node_id, path) ==
    [w EXCEPT !.store = set_path(@, node_id, path),
              !.writes = Append(@, <<node_id, path>>)]

\* if not path.exists(): path.touch()
touch_missing(w, path) ==
    IF path_exists(w.fs, path) THEN w
    ELSE [w EXCEPT !.fs = touch(@, path), !.ops = Append(@, <<"created", path>>)]

\* The rename test of a node that was in the previous snapshot.
rename_previous(w, node_id, previous_nodes, path) ==
    IF /\ node_id \in DOMAIN previous_nodes
       /\ Truthy(previous_nodes[node_id].path)
       /\ previous_nodes[node_id].path # path
       /\ path_exists(w.fs, previous_nodes[node_id].path)
       /\ ~path_exists(w.fs, path)
    THEN [w EXCEPT !.fs = rename(@, previous_nodes[node_id].path, path),
                   !.ops = Append(@, <<"moved", previous_nodes[node_id].path, path>>)]
    ELSE w

\* (a variant that writes the path of every node back to the store)
sync_node_writes_every_path(w, node_id, node_data, previous_nodes, store_down) ==
    LET path == IF ~Truthy(node_data.path) THEN SynthPath(node_id)
                ELSE node_data.path
        fs1  == IF ~path_exists(w.fs, path) THEN touch(w.fs, path) ELSE w.fs
    IN  IF store_down
        THEN [w EXCEPT !.raised = TRUE, !.writes = Append(@, <<node_id, path>>)]
        ELSE [store |-> set_path(w.store, node_id, SynthPath(node_id)),
              fs |-> fs1, raised |-> FALSE, ops |-> w.ops,
              writes |-> Append(w.writes, <<node_id, SynthPath(node_id)>>)]

\* One pass of the loop over current_nodes.items(), on
\* w = [store, fs, raised, writes, ops].  writes lists the SET n.path
\* statements run so far, as (id, path); ops lists the changes made to
\* the files, as (kind, path) or (kind, path, new path).  store_down: the
\* store cannot be written, so session.run raises and the exception
\* leaves _sync_files.
sync_node(w, node_id, node_data, previous_nodes, store_down) ==
    LET lacks == ~Truthy(node_data.path)
        path  == IF lacks THEN SynthPath(node_id) ELSE node_data.path
    IN  IF lacks /\ store_down
        THEN [w EXCEPT !.raised = TRUE, !.writes = Append(@, <<node_id, path>>)]
        ELSE rename_previous(
                 touch_missing(IF lacks THEN write_path(w, node_id, path) ELSE w,
                               path),
                 node_id, previous_nodes, path)

\* The loop over current_nodes.items() in the dict's iteration order.
RECURSIVE sync_current(_, _, _, _, _)
sync_current(w, order, current_nodes, previous_nodes, store_down) ==
    IF order = <<>> \/ w.raised THEN w
    ELSE sync_current(sync_node(w, Head(order), current_nodes[Head(order)],
                                previous_nodes, store_down),
                      Tail(order), current_nodes, previous_nodes, store_down)

\* The loop over previous_nodes.items(): the file of every node that is
\* gone is unlinked if its path is set and the file exists.  The unlinks
\* do not depend on each other, so the order of the loop does not matter.
sync_deleted(files, current_nodes, previous_nodes) ==
    LET gone == { previous_nodes[id].path :
                    id \in { i \in DOMAIN previous_nodes :
                               /\ i \notin DOMAIN current_nodes
                               /\ Truthy(previous_nodes[i].path) } }
    IN  [q \in DOMAIN files \ gone |-> files[q]]

\* The unlinks sync_deleted makes of `before`, in one of their orders.
unlinked(before, after) ==
    LET gone == CHOOSE o \in Orders(DOMAIN before \ DOMAIN after) : TRUE
    IN  [i \in DOMAIN gone |-> <<"deleted", gone[i]>>]

\* The second loop of _sync_files, on the outcome w1 of the first: the
\* files become fs3.
delete_removed(w1, fs3) ==
    [w1 EXCEPT !.fs = fs3, !.ops = @ \o unlinked(w1.fs, fs3)]

sync_files(w, order, current_nodes, previous_nodes, store_down) ==
    LET w1 == sync_current(w, order, current_nodes, previous_nodes, store_down)
    IN  IF w1.raised THEN w1
        ELSE delete_removed(w1, sync_deleted(w1.fs, current_nodes, previous_nodes))

\* --------------------------------------------------------- _sync_facts_pl
DirectiveNote == <<":","-"," ","d","i","s","c","o","n","t","i","g","u","o","u","s",
                   " ","n","o","t","e","/","2",".">>
DirectiveRel  == <<":","-"," ","d","i","s","c","o","n","t","i","g","u","o","u","s",
                   " ","r","e","l","/","3",".">>

\* f"note({node_id}, '{path}')."
NoteFact(node_id, path) ==
    <<"n","o","t","e","(">> \o node_id \o <<",", " ", "'">>
        \o str(path) \o <<"'", ")", ".">>

\* node_data.get("path", default): every dict _query_nodes builds has the
\* key "path", so the default is never returned, also when the value is
\* None.
get_path(node_data, default) == node_data.path

\* rel_type.lower().replace("_", " ")
rel_label(rel_type) == replace(lower(rel_type), "_", " ")

\* The keys of current_nodes, as 1-tuples, in the dict's iteration order;
\* sorted(current_nodes.items()) compares the keys, which differ.
NodeKeys(order) == [i \in DOMAIN order |-> <<order[i]>>]

\* The list `lines` _sync_facts_pl builds.
facts_lines(current_nodes, order, rel_order) ==
    LET ids  == sorted(NodeKeys(order))
        rels == sorted(rel_order)
    IN  <<DirectiveNote, DirectiveRel, <<>>>>
        \o [i \in DOMAIN ids |->
              NoteFact(ids[i][1],
                       get_path(current_nodes[ids[i][1]], SynthPath(ids[i][1])))]
        \o (IF order # <<>> /\ rel_order # <<>> THEN << <<>> >> ELSE <<>>)
        \o [i \in DOMAIN rels |->
              RelLine(rels[i][1], rels[i][2], rel_label(rels[i][3]))]

\* The text of a file whose lines are `lines`; "" for a missing file.
RECURSIVE FileText(_)
FileText(lines) ==
    IF lines = <<>> THEN <<>>
    ELSE Head(lines) \o <<"\n">> \o FileText(Tail(lines))

\* The whitespace str.strip() removes from a text.
Whitespace == {" ", "\t", "\n"}

\* _sync_facts_pl on f = [facts, exists]: the file is written when its
\* stripped text differs from the new one; an exception of the write is
\* caught and printed (write_down: the file cannot be written).
\* (before it, a variant that writes without comparing)
sync_facts_pl_always_writes(f, current_nodes, order, rel_order, write_down) ==
    [facts |-> facts_lines(current_nodes, order, rel_order), exists |-> TRUE,
     wrote |-> TRUE, failed |-> FALSE]
sync_facts_pl(f, current_nodes, order, rel_order, write_down) ==
    LET lines           == facts_lines(current_nodes, order, rel_order)
        new_content     == join(lines, <<"\n">>) \o <<"\n">>
        current_content == IF f.exists THEN FileText(f.facts) ELSE <<>>
        differs == strip(current_content, Whitespace) # strip(new_content, Whitespace)
    IN  IF differs /\ ~write_down
        THEN [facts |-> lines, exists |-> TRUE, wrote |-> TRUE, failed |-> FALSE]
        ELSE [facts |-> f.facts, exists |-> f.exists, wrote |-> FALSE,
              failed |-> differs /\ write_down]

\* ------------------------------------------------------------ _poll_loop
\* What one pass of the loop did.
SKIPPED == "skipped"   \* a query raised: nothing done
NOOP    == "noop"      \* nothing changed in the store
FAILED  == "failed"    \* _sync_files raised
SYNCED  == "synced"    \* the snapshot was replaced

\* The result of a pass that changes nothing.
same(kind, w) ==
    [kind |-> kind, store |-> w.store, last |-> w.last, fs |-> w.fs,
     facts |-> w.facts, exists |-> w.exists, nodes_changed |-> FALSE,
     wrote |-> FALSE, write_failed |-> FALSE, writes |-> <<>>,
     ops |-> <<>>]

\* (a variant that syncs whether or not the query results changed)
poll_sync_always_syncs(w, inp) ==
    LET current_nodes == query_nodes(w.store)
        current_rels  == query_relationships(w.store)
        before == [store |-> w.store, fs |-> w.fs, raised |-> FALSE,
                   writes |-> <<>>, ops |-> <<>>]
        s == sync_files(before, inp.order, current_nodes, w.last.nodes,
                        inp.store_down)
        f == sync_facts_pl([facts |-> w.facts, exists |-> w.exists],
                           current_nodes, inp.order, inp.rel_order,
                           inp.write_down)
    IN  IF s.raised
        THEN [same(FAILED, w) EXCEPT !.store = s.store, !.fs = s.fs,
                                     !.nodes_changed = TRUE,
                                     !.writes = s.writes, !.ops = s.ops]
        ELSE [kind |-> SYNCED, store |-> s.store,
              last |-> [nodes |-> current_nodes, rels |-> current_rels],
              fs |-> s.fs, facts |-> f.facts, exists |-> f.exists,
              nodes_changed |-> TRUE, wrote |-> f.wrote,
              write_failed |-> f.failed, writes |-> s.writes,
              ops |-> s.ops]

\* The body of the try of _poll_loop once both queries have returned.
poll_sync(w, inp) ==
    LET current_nodes == query_nodes(w.store)
        current_rels  == query_relationships(w.store)
        nodes_changed == current_nodes # w.last.nodes
        rels_changed  == current_rels # w.last.rels
        before == [store |-> w.store, fs |-> w.fs, raised |-> FALSE,
                   writes |-> <<>>, ops |-> <<>>]
        s == IF nodes_changed
             THEN sync_files(before, inp.order, current_nodes, w.last.nodes,
                             inp.store_down)
             ELSE before
        f == sync_facts_pl([facts |-> w.facts, exists |-> w.exists],
                           current_nodes, inp.order, inp.rel_order,
                           inp.write_down)
    IN  IF ~(nodes_changed \/ rels_changed) THEN same(NOOP, w)
        ELSE IF s.raised
        THEN [same(FAILED, w) EXCEPT !.store = s.store, !.fs = s.fs,
                                     !.nodes_changed = nodes_changed,
                                     !.writes = s.writes, !.ops = s.ops]
        ELSE [kind |-> SYNCED, store |-> s.store,
              last |-> [nodes |-> current_nodes, rels |-> current_rels],
              fs |-> s.fs, facts |-> f.facts, exists |-> f.exists,
              nodes_changed |-> nodes_changed, wrote |-> f.wrote,
              write_failed |-> f.failed, writes |-> s.writes,
              ops |-> s.ops]

\* Variant: the pass assigns each query result to the snapshot at once,
\* as _update_state does.
poll_tick_assigns_at_once(w, inp) ==
    IF inp.query = "nodes_fail" THEN same(SKIPPED, w)
    ELSE IF inp.query = "rels_fail"
    THEN [same(SKIPPED, w) EXCEPT !.last.nodes = query_nodes(w.store)]
    ELSE poll_sync(w, inp)

\* One pass of the while loop of _poll_loop on
\* w = [store, last, fs, facts, exists].  inp holds what the pass meets:
\* query ("ok", or which query raises), the iteration orders of the dict
\* and the set the queries return, store_down and write_down.  A query
\* that raises is caught by the except of the loop.
poll_tick(w, inp) ==
    IF inp.query # "ok" THEN same(SKIPPED, w) ELSE poll_sync(w, inp)

\* _update_state(), called by __init__ on last_nodes = {} and
\* last_rels = set(): an exception of either query is caught and printed;
\* when the second query raises, last_nodes is already assigned.
update_state(snapshot, st, query) ==
    IF query = "nodes_fail" THEN snapshot
    ELSE IF query = "rels_fail" THEN [snapshot EXCEPT !.nodes = query_nodes(st)]
    ELSE [nodes |-> query_nodes(st), rels |-> query_relationships(st)]

\* ----------------------------------------------- reconciler: initial state
\* Every node of the model has the property title; another writer of the
\* store can change it.
TITLE == <<"t">>
RETITLED == <<"u">>

Node(path, title) == [path |-> path, title |-> title]

\* The stores the reconciler can start on: at most MaxInitNodes nodes,
\* each with or without a path, and relationships between them.
NodeMaps(n) ==
    UNION { [D -> { Node(p, TITLE) : p \in StorePaths \cup {None} }] :
              D \in { E \in SUBSET NodeIds : Cardinality(E) <= n } }

RelsAmong(ids) == { r \in RelPool : r[1] \in ids /\ r[2] \in ids }

InitStores ==
    UNION { { [nodes |-> n, rels |-> r] : r \in SUBSET RelsAmong(DOMAIN n) } :
              n \in NodeMaps(MaxInitNodes) }

\* The files under ROOT/files when the reconciler starts: any of the
\* store's paths, each file holding a text of its own (here its path).
InitFs == UNION { { [p \in D |-> p] } : D \in SUBSET StorePaths }

\* facts.pl when the reconciler starts: missing, or left by the watcher
\* with a hand-written tag line.
InitFactsR == { <<NoteLine(idA, nA), TagLine(idA, <<"t">>)>> }

\* What the reconciler did last: nothing yet.
NoTick == [kind |-> "none", nodes_changed |-> FALSE, wrote |-> FALSE,
           write_failed |-> FALSE, writes |-> <<>>, after_tick |-> FALSE,
           store |-> EmptyStore, last |-> EmptyStore, fs |-> EmptyMap]

\* The store was changed by another client since the last pass.
StoreChanged == [NoTick EXCEPT !.kind = "store"]

\* Neo4jWatcher(): last_nodes = {}, last_rels = set(), _update_state(),
\* on one of the stores `stores`.
InitWorld(stores) ==
    /\ store \in stores
    /\ \E q \in {"ok", "nodes_fail", "rels_fail"} :
          last = update_state(EmptyStore, store, q)
    /\ fs \in InitFs
    /\ exists \in BOOLEAN
    /\ facts \in (IF exists THEN InitFactsR ELSE {<<>>})
    /\ tk = NoTick
    /\ nSteps = 0
    /\ ev = NoEvent
    /\ prevFacts = facts
    /\ prevExists = exists
    /\ raised = FALSE
    /\ nEvents = 0

\* No watcher runs beside the reconciler.
NoWatcher == known = {} /\ prevKnown = {}

InitR == InitWorld(InitStores) /\ NoWatcher /\ Idle

\* ------------------------------------------------- reconciler: actions
watcherVars == <<known, ev, prevKnown, raised, nEvents>>

\* One pass of the loop of _poll_loop.
TickBody(inp) ==
    /\ \E r \in {poll_tick([store |-> store, last |-> last, fs |-> fs,
                            facts |-> facts, exists |-> exists], inp)} :
          /\ store' = r.store
          /\ last' = r.last
          /\ fs' = r.fs
          /\ facts' = r.facts
          /\ exists' = r.exists
          /\ tk' = [kind |-> r.kind, nodes_changed |-> r.nodes_changed,
                    wrote |-> r.wrote, write_failed |-> r.write_failed,
                    writes |-> r.writes,
                    after_tick |-> tk.kind \in {NOOP, SYNCED},
                    store |-> store, last |-> last, fs |-> fs]
    /\ prevFacts' = facts
    /\ prevExists' = exists
    /\ nSteps' = nSteps + 1

\* One pass of the loop of _poll_loop, then stop_event.wait(poll_interval).
Tick(inp) ==
    /\ nSteps < MaxSteps
    /\ TickBody(inp)
    /\ UNCHANGED watcherVars
    /\ UNCHANGED auxVars

\* What a pass can meet: the store reachable or not, the iteration orders
\* of the query results, the store and facts.pl writable or not.
TickInputs ==
    { [query |-> q, order |-> o, rel_order |-> ro,
       store_down |-> sd, write_down |-> wd] :
        q \in {"ok", "nodes_fail", "rels_fail"},
        o \in Orders(DOMAIN store.nodes), ro \in Orders(store.rels),
        sd \in BOOLEAN, wd \in BOOLEAN }

Poll == \E inp \in TickInputs : Tick(inp)

\* Another client of the store changes it between two passes.
Change(st) ==
    /\ nSteps < MaxSteps
    /\ store' = st
    /\ tk' = StoreChanged
    /\ prevFacts' = facts
    /\ prevExists' = exists
    /\ nSteps' = nSteps + 1
    /\ UNCHANGED <<last, fs, facts, exists>>
    /\ UNCHANGED watcherVars
    /\ UNCHANGED auxVars

\* CREATE (n:Note {id: $id, ...})
AddNode ==
    \E id \in NodeIds \ DOMAIN store.nodes, p \in StorePaths \cup {None} :
        Change([store EXCEPT !.nodes =
                  [i \in DOMAIN store.nodes \cup {id} |->
                     IF i = id THEN Node(p, TITLE) ELSE store.nodes[i]]])

\* MATCH (n:Note {id: $id}) DETACH DELETE n
DeleteNode ==
    \E id \in DOMAIN store.nodes :
        Change([nodes |-> [i \in DOMAIN store.nodes \ {id} |-> store.nodes[i]],
                rels  |-> { r \in store.rels : r[1] # id /\ r[2] # id }])

\* MATCH (n:Note {id: $id}) SET n.path = $path
SetPath ==
    \E id \in DOMAIN store.nodes, p \in StorePaths :
        /\ store.nodes[id].path # p
        /\ Change(set_path(store, id, p))

\* MATCH (n:Note {id: $id}) SET n.title = $title
SetTitle ==
    \E id \in DOMAIN store.nodes :
        /\ store.nodes[id].title = TITLE
        /\ Change([store EXCEPT !.nodes[id].title = RETITLED])

\* CREATE (a)-[:LINKS_TO]->(b)
AddRel ==
    \E r \in RelsAmong(DOMAIN store.nodes) \ store.rels :
        Change([store EXCEPT !.rels = @ \cup {r}])

\* MATCH (a)-[r]->(b) DELETE r
DeleteRel ==
    \E r \in store.rels :
        Change([store EXCEPT !.rels = @ \ {r}])

NextR == Poll \/ AddNode \/ DeleteNode \/ SetPath \/ SetTitle \/ AddRel \/ DeleteRel

SpecR == InitR /\ [][NextR]_vars

\* =====================================================================
\* The functions on their own: each behaviour of SpecF makes the calls of
\* one function on one argument list, drawn by InitF.
\* =====================================================================
\* ---------------------------------------------- the other two normalisers
\* _snake of neo4j_to_filesystem_watcher.py; snake[0] is an IndexError
\* when snake is empty.
snake_raises(s) == lower(strip(SubNonWordRuns(s), {"_"})) = <<>>

\* (a variant that never prefixes nn_)
snake_drops_prefix(s) == lower(strip(SubNonWordRuns(s), {"_"}))
snake(s) ==
    LET snk == lower(strip(SubNonWordRuns(s), {"_"}))
    IN  IF ~LOWERCASE(snk[1]) THEN <<"n","n","_">> \o snk ELSE snk

\* _to_snake_case and format of watch_knowledge.py.
to_snake_case_wk(s) == lower(strip(SubNonWordRuns(s), {"_"}))

format_raises(name) == to_snake_case_wk(name) = <<>>

format(name) ==
    LET snaked == to_snake_case_wk(name)
    IN  IF ~LOWERCASE(snaked[1]) THEN <<"n","n","_">> \o snaked ELSE snaked

\* What a call gives: that it raised, or the value it returned.
Returned(value) == [raises |-> FALSE, value |-> value]
Raised == [raises |-> TRUE, value |-> None]

\* One call of each of the three normalisers on the same stem.
normalize(s) ==
    [watcher    |-> IF format_note_name_raises(s) THEN Raised
                    ELSE Returned(format_note_name(s)),
     reconciler |-> IF snake_raises(s) THEN Raised
                    ELSE Returned(snake(s)),
     knowledge  |-> IF format_raises(s) THEN Raised
                    ELSE Returned(format(s))]

\* ------------------------------------------------------------- the stems
\* The stems of the documentation, and every string of at most MaxStemLen
\* characters over a lower-case letter, an upper-case letter, a digit, a
\* non-word character, the underscore and a letter outside ASCII.
STEM_DATE  == <<"2","0","2","5","-","0","6","-","3","0">>
STEM_DRAFT == <<"D","r","a","f","t"," ","I","d","e","a","s">>
STEM_NN    == <<"n","n"," ","f","o","o">>
ID_DATE    == <<"n","n","_","2","0","2","5","_","0","6","_","3","0">>
ID_DRAFT   == <<"d","r","a","f","t","_","i","d","e","a","s">>

StemChars == {"a", "B", "1", "-", "_", E_ACUTE}

Stems ==
    {STEM_DATE, STEM_DRAFT, STEM_NN}
        \cup UNION { [1..n -> StemChars] : n \in 0..MaxStemLen }

\* The ids normalize returns on the stems.
Ids == { format_note_name(s) : s \in { t \in Stems : ~format_note_name_raises(t) } }

\* ------------------------------------------------------------- the calls
\* The values of the variables the calls of a function leave alone.
InitRest ==
    /\ facts = <<>>
    /\ exists = TRUE
    /\ known = {}
    /\ ev = NoEvent
    /\ prevFacts = <<>>
    /\ prevKnown = {}
    /\ prevExists = TRUE
    /\ raised = FALSE
    /\ nEvents = 0
    /\ store = EmptyStore
    /\ last = EmptyStore
    /\ fs = EmptyMap
    /\ tk = NoTick
    /\ nSteps = 0
    /\ th = NoThread
    /\ pending = <<>>
    /\ wk = NoHandler

restVars == <<facts, exists, known, ev, prevFacts, prevKnown, prevExists,
              raised, nEvents, store, last, fs, tk, nSteps, th, pending, wk>>

NormalizeCalls ==
    { [op |-> "normalize", stem |-> s, results |-> <<>>] : s \in Stems }

\* normalize(stem), called again on the same stem up to MaxCalls times.
Normalize ==
    /\ fn.op = "normalize"
    /\ Len(fn.results) < MaxCalls
    /\ fn' = [fn EXCEPT !.results = Append(@, normalize(fn.stem))]
    /\ UNCHANGED restVars

DenormalizeCalls ==
    { [op |-> "denormalize", id |-> i, results |-> <<>>] : i \in Ids }

\* The file name _sync_files synthesizes for a node of this id, and the
\* id the watcher's handler derives from that file's stem.
denormalize(id) ==
    LET file_name == unsnake_to_filename(id)
    IN  [file_name |-> file_name,
         back |-> IF format_note_name_raises(stem(file_name)) THEN Raised
                  ELSE Returned(format_note_name(stem(file_name)))]

Denormalize ==
    /\ fn.op = "denormalize"
    /\ Len(fn.results) < MaxCalls
    /\ fn' = [fn EXCEPT !.results = Append(@, denormalize(fn.id))]
    /\ UNCHANGED restVars

\* update_rels of watch_knowledge.py: the test is made on line.strip().
IsRelLine_wk(line) ==
    StartsWith(strip(line, {c \in Range(line) : IsSpace(c)}), <<"r","e","l","(">>)

update_rels_wk(lines, old_note, new_note) ==
    [i \in DOMAIN lines |->
        IF IsRelLine_wk(lines[i]) /\ PatSearch(lines[i], old_note)
        THEN PatSub(lines[i], old_note, new_note, 1)
        ELSE lines[i]]

\* The lines of a facts.pl update_rels is called on: those of InitPool and
\* a hand-written rel line that begins with a blank.
INDENTED_REL == <<" ">> \o RelLine(idA, idB, <<"x">>)
RelsPool == InitPool \o <<INDENTED_REL>>

UpdateRelsCalls ==
    { [op |-> "update_rels", old |-> o, new |-> n, results |-> <<>>,
       lines |-> SelectSeq(RelsPool, LAMBDA l : l \in S)] :
        o \in {idA, idB, idAx}, n \in {idA, idB, idAx},
        S \in SUBSET Range(RelsPool) }

\* update_rels(old, new) of filewatcher.py and of watch_knowledge.py on
\* the same file.
UpdateRels ==
    /\ fn.op = "update_rels"
    /\ Len(fn.results) < MaxCalls
    /\ fn' = [fn EXCEPT !.results = Append(@,
                 [watcher   |-> update_rels(fn.lines, fn.old, fn.new),
                  knowledge |-> update_rels_wk(fn.lines, fn.old, fn.new)])]
    /\ UNCHANGED restVars

\* The facts.pl a pass can find for the store st: the file a pass wrote
\* for it, the same after a blank line, before a blank line or before a
\* hand-written tag line, the file the watcher left, and no file.
FactsFilesFor(st) ==
    LET written == facts_lines(query_nodes(st),
                               CHOOSE o \in Orders(DOMAIN st.nodes) : TRUE,
                               CHOOSE ro \in Orders(st.rels) : TRUE)
    IN  { [facts |-> f, exists |-> TRUE] :
            f \in { written, << <<>> >> \o written, written \o << <<>> >>,
                    written \o <<TagLine(idA, <<"t">>)>> } \cup InitFactsR }
        \cup { [facts |-> <<>>, exists |-> FALSE] }

ResynthesizeCalls ==
    UNION { { [op |-> "resynthesize", file |-> f, results |-> <<>>,
               current_nodes |-> query_nodes(st), order |-> o,
               rel_order |-> ro, write_down |-> wd] :
                f \in FactsFilesFor(st), o \in Orders(DOMAIN st.nodes),
                ro \in Orders(st.rels), wd \in BOOLEAN } :
            st \in InitStores }

\* _sync_facts_pl(current_nodes, current_rels) on the file.
Resynthesize ==
    /\ fn.op = "resynthesize"
    /\ Len(fn.results) < MaxCalls
    /\ fn' = [fn EXCEPT !.results = Append(@,
                 sync_facts_pl(fn.file, fn.current_nodes, fn.order,
                               fn.rel_order, fn.write_down))]
    /\ UNCHANGED restVars

InitF ==
    /\ fn \in NormalizeCalls \cup DenormalizeCalls \cup UpdateRelsCalls
                \cup ResynthesizeCalls
    /\ InitRest

NextF == Normalize \/ Denormalize \/ UpdateRels \/ Resynthesize

SpecF == InitF /\ [][NextF]_vars

\* =====================================================================
\* The reconciler's thread: start(), the loop of _poll_loop step by step,
\* stop().  SpecT.
\* =====================================================================
\* poll_interval of main(), in units of the model's clock.
POLL_INTERVAL == 2

\* The stores the thread is started on.
ThreadStores == { st \in InitStores : Cardinality(DOMAIN st.nodes) <= 1 }

\* th = [main, pc, stop_event, waited, stopped_at, waited_at_stop, late].
\* main: where the main thread is (new, running, joining in stop(),
\* returned from stop()); pc: where the loop is; waited: how long the
\* current stop_event.wait has lasted; stopped_at, waited_at_stop: pc and
\* waited when stop() set the event; late: a pass began after that.
NewThread ==
    [main |-> "new", pc |-> "none", stop_event |-> FALSE, waited |-> 0,
     stopped_at |-> "none", waited_at_stop |-> 0, late |-> FALSE]

InitT ==
    /\ InitWorld(ThreadStores)
    /\ NoWatcher
    /\ th = NewThread
    /\ fn = NoCall
    /\ pending = <<>>
    /\ wk = NoHandler

worldVars == <<store, last, fs, facts, exists, tk, nSteps, prevFacts, prevExists>>

\* start(): the thread is created and started on _poll_loop.
Start ==
    /\ th.main = "new"
    /\ th' = [th EXCEPT !.main = "running", !.pc = "while"]
    /\ UNCHANGED <<worldVars, watcherVars, fn, pending, wk>>

\* (a variant of the loop's condition that ignores the event)
loop_condition_ignores_stop(t) == TRUE
\* while not self.stop_event.is_set()
loop_condition(t) == ~t.stop_event

\* The test of the while: a pass begins, or the loop and the thread end.
While ==
    /\ th.pc = "while"
    /\ IF loop_condition(th)
       THEN /\ nSteps < MaxSteps
            /\ th' = [th EXCEPT !.pc = "try", !.late = th.stop_event]
       ELSE th' = [th EXCEPT !.pc = "done"]
    /\ UNCHANGED <<worldVars, watcherVars, fn, pending, wk>>

\* The try of the loop: one pass, to its end.
Try ==
    /\ th.pc = "try"
    /\ \E inp \in TickInputs : TickBody(inp)
    /\ th' = [th EXCEPT !.pc = "wait", !.waited = 0]
    /\ UNCHANGED <<watcherVars, fn, pending, wk>>

\* stop_event.wait(poll_interval) goes on: the event is not set and the
\* timeout has not passed.
Waiting ==
    /\ th.pc = "wait"
    /\ ~th.stop_event
    /\ th.waited < POLL_INTERVAL
    /\ th' = [th EXCEPT !.waited = @ + 1]
    /\ UNCHANGED <<worldVars, watcherVars, fn, pending, wk>>

\* stop_event.wait(poll_interval) returns: the event is set or the
\* timeout has passed.
Waited ==
    /\ th.pc = "wait"
    /\ (th.stop_event \/ th.waited = POLL_INTERVAL)
    /\ th' = [th EXCEPT !.pc = "while", !.waited = 0]
    /\ UNCHANGED <<worldVars, watcherVars, fn, pending, wk>>

\* stop(), as far as thread.join(): the event is set.
Stop ==
    /\ th.main = "running"
    /\ th' = [th EXCEPT !.main = "joining", !.stop_event = TRUE,
                        !.stopped_at = th.pc, !.waited_at_stop = th.waited]
    /\ UNCHANGED <<worldVars, watcherVars, fn, pending, wk>>

\* thread.join() returns, and stop() with it: the thread has ended.
Join ==
    /\ th.main = "joining"
    /\ th.pc = "done"
    /\ th' = [th EXCEPT !.main = "returned"]
    /\ UNCHANGED <<worldVars, watcherVars, fn, pending, wk>>

\* The steps of the loop between two passes.
Between == While \/ Waiting \/ Waited

NextT == Start \/ Try \/ Between \/ Stop \/ Join

\* The thread is scheduled again and again between its passes, and the
\* main thread, blocked in join(), goes on once it can.  Whether a pass
\* in flight comes to an end is up to the store and the file system.
SpecT == InitT /\ [][NextT]_vars /\ WF_vars(Between) /\ WF_vars(Join)

\* =====================================================================
\* The watcher on its directory: the files of KNOWLEDGE_DIR change, the
\* observer queues an event for each change and the handler takes the
\* events from the queue.  SpecD.
\* =====================================================================
\* The two programs that watch KNOWLEDGE_DIR.
FILEWATCHER == "filewatcher.py"
WATCH_KNOWLEDGE == "watch_knowledge.py"

\* sync_existing(known) of watch_knowledge.py, on
\* st = [facts, exists, known, raised] and the names of
\* KNOWLEDGE_DIR.iterdir() in its order: a file that is not hidden and not
\* known gets a note line and is known from then on.  An exception of
\* format leaves main().
RECURSIVE sync_existing(_, _)
sync_existing(st, order) ==
    IF order = <<>> \/ st.raised THEN st
    ELSE LET name == Head(order)
             rel  == FilesPath(name)
             st1  == IF ignore(name) \/ rel \in st.known THEN st
                     ELSE IF format_raises(stem(name))
                     THEN [st EXCEPT !.raised = TRUE]
                     ELSE [st EXCEPT !.facts  = append_note(st.facts, name),
                                     !.exists = TRUE,
                                     !.known  = st.known \cup {rel}]
         IN  sync_existing(st1, Tail(order))

\* main() of either program as far as observer.start(): filewatcher.py
\* loads the known set, watch_knowledge.py loads it and calls
\* sync_existing.
main(module, f, order) ==
    LET st == [facts |-> f.facts, exists |-> f.exists, raised |-> FALSE,
               known |-> load_known_notes(f.facts, f.exists)]
    IN  IF module = WATCH_KNOWLEDGE THEN sync_existing(st, order) ELSE st

\* The names of the files in KNOWLEDGE_DIR.
Dir == { n \in Names : FilesPath(n) \in DOMAIN fs }

\* The directories the watcher is started on.
Dirs ==
    { [p \in { FilesPath(n) : n \in D } |-> EMPTY] :
        D \in { E \in SUBSET Names : Cardinality(E) <= MaxDirFiles } }

InitD ==
    /\ fs \in Dirs
    /\ \E module \in {FILEWATCHER, WATCH_KNOWLEDGE}, ex \in BOOLEAN :
         \E f \in (IF ex THEN InitFiles ELSE {<<>>}), o \in Orders(Dir) :
           \E r \in {main(module, [facts |-> f, exists |-> ex], o)} :
              /\ facts = r.facts
              /\ exists = r.exists
              /\ known = r.known
              /\ raised = r.raised
              /\ fn = [op |-> "main", module |-> module]
    /\ ev = NoEvent
    /\ prevFacts = facts
    /\ prevKnown = known
    /\ prevExists = exists
    /\ nEvents = 0
    /\ store = EmptyStore
    /\ last = EmptyStore
    /\ tk = NoTick
    /\ nSteps = 0
    /\ th = NoThread
    /\ pending = <<>>
    /\ wk = NoHandler

storeVars == <<store, last, tk, nSteps>>

\* A change of the directory, and the event the observer queues for it.
Changed(files, e) ==
    /\ nEvents < MaxEvents
    /\ fs' = files
    /\ pending' = Append(pending, e)
    /\ nEvents' = nEvents + 1
    /\ UNCHANGED <<facts, exists, known, raised, ev, prevFacts, prevKnown,
                   prevExists, storeVars, fn, th, wk>>

InDir(n) == Path(KNOWLEDGE_DIR, n)

FsCreate ==
    \E n \in Names \ Dir :
        Changed(touch(fs, FilesPath(n)), Event("created", FALSE, InDir(n), InDir(n)))

FsDelete ==
    \E n \in Dir :
        Changed([p \in DOMAIN fs \ {FilesPath(n)} |-> fs[p]],
                Event("deleted", FALSE, InDir(n), InDir(n)))

FsRename ==
    \E s \in Dir, d \in Names :
        /\ s # d
        /\ Changed(rename(fs, FilesPath(s), FilesPath(d)),
                   Event("moved", FALSE, InDir(s), InDir(d)))

\* The observer's thread takes the oldest event of the queue and calls
\* its handler; it ends when a handler raises.
Handle ==
    /\ pending # <<>>
    /\ ~raised
    /\ Dispatch(Head(pending))
    /\ pending' = Tail(pending)
    /\ UNCHANGED <<fs, nEvents, storeVars, fn, th, wk>>

NextD == FsCreate \/ FsDelete \/ FsRename \/ Handle

SpecD == InitD /\ [][NextD]_vars

\* =====================================================================
\* The reconciler and the watcher of filewatcher.py side by side: the
\* passes of the one and the callbacks of the other work on the same
\* facts.pl, and the observer queues an event for every change a pass
\* makes to the files of KNOWLEDGE_DIR.  SpecB.
\* =====================================================================
\* The file name of a path 'files/<name>'.
NameOf(path) == From(path, 7)

\* The event the observer queues for a change a pass made to the files.
FileEvent(op) ==
    IF op[1] = "moved"
    THEN Event("moved", FALSE, InDir(NameOf(op[2])), InDir(NameOf(op[3])))
    ELSE Event(op[1], FALSE, InDir(NameOf(op[2])), InDir(NameOf(op[2])))

FileEvents(ops) == [i \in DOMAIN ops |-> FileEvent(ops[i])]

\* A callback of the watcher ran since the last pass.
WatcherStep == [NoTick EXCEPT !.kind = "event"]

\* Both programs start: the reconciler on its store, the watcher on the
\* facts.pl it finds.
InitB ==
    /\ InitWorld(ThreadStores)
    /\ known = load_known_notes(facts, exists)
    /\ prevKnown = known
    /\ fn = [op |-> "main", module |-> FILEWATCHER]
    /\ th = NoThread
    /\ pending = <<>>
    /\ wk = NoHandler

\* A pass of the reconciler; the observer queues the events of its
\* changes to the files.
TickB ==
    /\ nSteps < MaxSteps
    /\ \E inp \in TickInputs :
         /\ TickBody(inp)
         /\ pending' = pending \o
               FileEvents(poll_tick([store |-> store, last |-> last, fs |-> fs,
                                     facts |-> facts, exists |-> exists], inp).ops)
    /\ UNCHANGED <<known, ev, prevKnown, raised, nEvents, fn, th, wk>>

\* The observer's thread takes the oldest event of the queue and calls
\* its handler.
HandleB ==
    /\ pending # <<>>
    /\ ~raised
    /\ Dispatch(Head(pending))
    /\ pending' = Tail(pending)
    /\ nEvents' = nEvents + 1
    /\ tk' = WatcherStep
    /\ UNCHANGED <<store, last, fs, nSteps, fn, th, wk>>

NextB == TickB \/ HandleB

SpecB == InitB /\ [][NextB]_vars

\* =====================================================================
\* The two watchers given the same events: KnowledgeHandler of
\* filewatcher.py works on facts, exists and known, Handler of
\* watch_knowledge.py on wk = [facts, exists, known, raised], its own copy
\* of the same file.  SpecE.
\* =====================================================================
\* append_note of watch_knowledge.py
append_note_wk(lines, file_name) ==
    Append(lines, NoteLine(format(stem(file_name)), file_name))

\* remove_note of watch_knowledge.py
remove_note_wk(lines, file_name) ==
    LET target == FilesPath(file_name)
    IN  SelectSeq(lines, LAMBDA line : ~Contains(line, target))

\* Handler._maybe_add; Handler._ignore tests the same two prefixes as
\* KnowledgeHandler._ignore.
maybe_add_wk(st, name) ==
    IF ignore(name) THEN st
    ELSE IF FilesPath(name) \in st.known THEN st
    ELSE IF format_raises(stem(name)) THEN [st EXCEPT !.raised = TRUE]
    ELSE [st EXCEPT !.facts  = append_note_wk(st.facts, name),
                    !.exists = TRUE,
                    !.known  = st.known \cup {FilesPath(name)}]

\* Handler._maybe_remove
maybe_remove_wk(st, name) ==
    IF ignore(name) THEN st
    ELSE IF FilesPath(name) \notin st.known THEN st
    ELSE [st EXCEPT !.facts = IF st.exists THEN remove_note_wk(st.facts, name) ELSE @,
                    !.known = st.known \ {FilesPath(name)}]

\* The branch of Handler.on_moved for a rename within KNOWLEDGE_DIR.
rename_within_wk(st, src, dst) ==
    IF format_raises(stem(src)) \/ format_raises(stem(dst))
    THEN [st EXCEPT !.raised = TRUE]
    ELSE LET s1 == maybe_remove_wk(st, src)
             s2 == [s1 EXCEPT !.facts = IF s1.exists
                                        THEN update_rels_wk(s1.facts, format(stem(src)),
                                                            format(stem(dst)))
                                        ELSE @]
         IN  maybe_add_wk(s2, dst)

\* Handler.on_moved
on_moved_wk(st, e) ==
    IF e.is_directory THEN st
    ELSE IF e.src.parent = KNOWLEDGE_DIR /\ e.dest.parent = KNOWLEDGE_DIR
    THEN rename_within_wk(st, e.src.name, e.dest.name)
    ELSE LET s1 == IF e.dest.parent = KNOWLEDGE_DIR
                   THEN maybe_add_wk(st, e.dest.name) ELSE st
         IN  IF s1.raised THEN s1
             ELSE IF e.src.parent = KNOWLEDGE_DIR
                  THEN maybe_remove_wk(s1, e.src.name) ELSE s1

\* watchdog's dispatch of an event to the callbacks of Handler
\* (on_created, on_deleted, on_moved).
dispatch_wk(st, e) ==
    CASE e.type = "created" -> IF e.is_directory THEN st ELSE maybe_add_wk(st, e.src.name)
      [] e.type = "deleted" -> IF e.is_directory THEN st ELSE maybe_remove_wk(st, e.src.name)
      [] e.type = "moved"   -> on_moved_wk(st, e)

\* Lines of the facts.pl both watchers start on: the note lines of A.md,
\* a.txt (the same id as A.md) and A.md.x, a rel line between two ids that
\* have a note line, and a hand-written rel line that begins with a
\* blank.  An initial file is any selection of these lines, in this
\* order.
PairPool ==
    << NoteLine(idA, nA),
       NoteLine(format_note_name(stem(nAt)), nAt),
       NoteLine(idAx, nAx),
       RelLine(idA, idAx, <<"x">>),
       INDENTED_REL >>

PairFiles ==
    { SelectSeq(PairPool, LAMBDA l : l \in S) : S \in SUBSET Range(PairPool) }

\* main() of both programs on the same facts.pl, each loading its known
\* set (load_known_files is load_known_notes line for line); the watched
\* directory holds no file the fact file lacks, so that sync_existing
\* adds nothing.
InitE ==
    /\ exists \in BOOLEAN
    /\ facts \in (IF exists THEN PairFiles ELSE {<<>>})
    /\ known = load_known_notes(facts, exists)
    /\ wk = [module |-> WATCH_KNOWLEDGE, facts |-> facts, exists |-> exists,
             known |-> load_known_notes(facts, exists), raised |-> FALSE]
    /\ ev = NoEvent
    /\ prevFacts = facts
    /\ prevKnown = known
    /\ prevExists = exists
    /\ raised = FALSE
    /\ nEvents = 0
    /\ store = EmptyStore
    /\ last = EmptyStore
    /\ fs = EmptyMap
    /\ tk = NoTick
    /\ nSteps = 0
    /\ fn = NoCall
    /\ th = NoThread
    /\ pending = <<>>

\* Each observer delivers event e to its handler.
DeliverBoth(e) ==
    /\ nEvents < MaxEvents
    /\ ~raised /\ ~wk.raised
    /\ Dispatch(e)
    /\ wk' = dispatch_wk(wk, e)
    /\ nEvents' = nEvents + 1
    /\ UNCHANGED <<store, last, fs, tk, nSteps, fn, th, pending>>

NextE == \E e \in CreatedEvents \cup DeletedEvents \cup MovedEvents : DeliverBoth(e)

SpecE == InitE /\ [][NextE]_vars

\* =====================================================================
\* Properties
\* =====================================================================
\* The state the last event was delivered in, and the state after it.
Prev == [facts |-> prevFacts, exists |-> prevExists, known |-> prevKnown,
         raised |-> FALSE]
Cur  == [facts |-> facts, exists |-> exists, known |-> known, raised |-> FALSE]

\* The last event was a file event whose handler returned normally.
Handled == ev.type # "none" /\ ~ev.is_directory /\ ~raised

\* The last event was a rename of a file within the watched directory.
RenamedWithin ==
    /\ ev.type = "moved" /\ ~ev.is_directory
    /\ ev.src.parent = KNOWLEDGE_DIR /\ ev.dest.parent = KNOWLEDGE_DIR

\* The lines of a file that are note lines, rel lines.
IsNoteLine(line) == NOTE_RE_match(line).ok
NoteLineSet(lines) == { lines[i] : i \in { j \in DOMAIN lines : IsNoteLine(lines[j]) } }
RelLinesOf(lines) == SelectSeq(lines, IsRelLine)

\* The number of note lines of a file whose Id is id.
NoteLinesWithId(lines, id) ==
    Cardinality({ i \in DOMAIN lines :
                    IsNoteLine(lines[i]) /\ NOTE_RE_match(lines[i]).id = id })

\* C1 (as claimed): rename integrity.  After Renamed(A, B) within the
\* watched directory no rel( line contains normalize(stem(A)) as a token,
\* exactly one note line has the Id normalize(stem(B)), and the file has as
\* many rel( lines as before the rename.  It is stated for the renames
\* the claim is surely about: A is known and B is not, neither is hidden,
\* their ids differ, no other known file has the id of B and the handler
\* returns normally.
C1_RenameIntegrity ==
    ( /\ RenamedWithin /\ ~raised
      /\ ~ignore(ev.src.name) /\ ~ignore(ev.dest.name)
      /\ FilesPath(ev.src.name) \in prevKnown
      /\ FilesPath(ev.dest.name) \notin prevKnown
      /\ format_note_name(stem(ev.src.name)) # format_note_name(stem(ev.dest.name))
      /\ \A p \in prevKnown :
            format_note_name(stem(NameOf(p))) # format_note_name(stem(ev.dest.name)) )
    => LET old == format_note_name(stem(ev.src.name))
           new == format_note_name(stem(ev.dest.name))
       IN  /\ \A i \in DOMAIN facts :
                 IsRelLine(facts[i]) => ~PatSearch(facts[i], old)
           /\ NoteLinesWithId(facts, new) = 1
           /\ Len(RelLinesOf(facts)) = Len(RelLinesOf(prevFacts))

\* C2 (as claimed): create/delete round trip.  After Created(p) for a path
\* p that was not known, handling Deleted(p) leaves the set of note lines
\* of facts.pl equal to the set before Created(p).
C2_CreateDeleteRoundTrip ==
    ( /\ ev.type = "created" /\ Handled
      /\ FilesPath(ev.src.name) \notin prevKnown )
    => NoteLineSet(on_deleted(Cur, Event("deleted", FALSE, ev.src, ev.src)).facts)
         = NoteLineSet(prevFacts)

\* C3 (as claimed): in every state reached by watcher events from
\* known = load_known_notes(), self.known is exactly the set of paths of
\* the note lines of facts.pl.
C3_KnownEqualsNotePaths == known = load_known_notes(facts, exists)

\* C4 (as claimed): in every state reached by watcher events, facts.pl
\* holds exactly one note line for each Id of a known path, also when two
\* known file names normalise to the same Id.
C4_OneNoteLinePerKnownId ==
    \A p \in known :
        ~format_note_name_raises(stem(NameOf(p)))
        => NoteLinesWithId(facts, format_note_name(stem(NameOf(p)))) = 1

\* C5: Created(path) for a file that reaches the synchroniser (not hidden,
\* its stem normalising to a non-empty token).  If path was not known,
\* facts.pl is the old file followed by exactly one new line, a note line
\* that reads back as Id normalize(stem(path)) and path 'files/<name>', and
\* path is added to known; if path was known, neither facts.pl nor known
\* changes.
C5_Created ==
    ( /\ ev.type = "created" /\ Handled /\ ~ignore(ev.src.name) )
    => LET path == FilesPath(ev.src.name)
       IN  IF path \notin prevKnown
           THEN /\ Len(facts) = Len(prevFacts) + 1
                /\ SubSeq(facts, 1, Len(prevFacts)) = prevFacts
                /\ NOTE_RE_match(facts[Len(facts)]) =
                     [ok   |-> TRUE,
                      id   |-> format_note_name(stem(ev.src.name)),
                      path |-> path]
                /\ facts[Len(facts)] =
                     NoteLine(NOTE_RE_match(facts[Len(facts)]).id, ev.src.name)
                /\ known = prevKnown \cup {path}
           ELSE facts = prevFacts /\ known = prevKnown

\* C5 witness: a Created event for an unknown path has added its line.
C5_Witness ==
    /\ ev.type = "created" /\ Handled /\ ~ignore(ev.src.name)
    /\ FilesPath(ev.src.name) \notin prevKnown
    /\ Len(facts) = Len(prevFacts) + 1
    /\ prevFacts # <<>>

\* Whether small is large with some lines left out (a subsequence).
RECURSIVE IsSubsequence(_, _)
IsSubsequence(small, large) ==
    IF small = <<>> THEN TRUE
    ELSE IF large = <<>> THEN FALSE
    ELSE IF Head(small) = Head(large)
         THEN IsSubsequence(Tail(small), Tail(large))
         ELSE IsSubsequence(small, Tail(large))

\* C6: Deleted(path) for a file that reaches the synchroniser.  If path was
\* known, afterwards no note line of facts.pl carries that path, nothing
\* was added to the file, and path is removed from known; if path was not
\* known, neither facts.pl nor known changes.
C6_Deleted ==
    ( /\ ev.type = "deleted" /\ Handled /\ ~ignore(ev.src.name) )
    => LET path == FilesPath(ev.src.name)
       IN  IF path \in prevKnown
           THEN /\ path \notin load_known_notes(facts, exists)
                /\ IsSubsequence(facts, prevFacts)
                /\ known = prevKnown \ {path}
           ELSE facts = prevFacts /\ known = prevKnown

\* C6 witness: a Deleted event for a known path has removed its note line
\* and left other lines in the file.
C6_Witness ==
    /\ ev.type = "deleted" /\ Handled
    /\ FilesPath(ev.src.name) \in prevKnown
    /\ FilesPath(ev.src.name) \in load_known_notes(prevFacts, prevExists)
    /\ facts # prevFacts
    /\ facts # <<>>

\* C7: replay safety.  Whatever event was handled last, handling the same
\* event once more changes neither facts.pl nor known.
C7_ReplaySafe ==
    Handled => dispatch(Cur, ev) = Cur

\* C7 witness: a rename within the directory that removed a note line,
\* rewrote a rel line and added a note line has been handled.
C7_Witness ==
    /\ RenamedWithin /\ Handled
    /\ FilesPath(ev.src.name) \in prevKnown
    /\ FilesPath(ev.dest.name) \in known \ prevKnown
    /\ RelLinesOf(facts) # RelLinesOf(prevFacts)

\* The three steps of a rename within the directory, as on_moved calls
\* them: 1 is _maybe_remove(src), 2 is update_rels(old, new), 3 is
\* _maybe_add(dst).
RenameStep(st, k, src, dst) ==
    CASE k = 1 -> maybe_remove(st, src)
      [] k = 2 -> [st EXCEPT !.facts =
                     IF st.exists
                     THEN update_rels(st.facts, format_note_name(stem(src)),
                                      format_note_name(stem(dst)))
                     ELSE @]
      [] k = 3 -> maybe_add(st, dst)

\* The orders the three steps can be applied in.
StepOrders == { o \in [1..3 -> 1..3] : \A i, j \in 1..3 : o[i] = o[j] => i = j }

RenameInOrder(st, o, src, dst) ==
    RenameStep(RenameStep(RenameStep(st, o[1], src, dst), o[2], src, dst),
               o[3], src, dst)

\* C8 (as claimed): for a rename within the watched directory (neither
\* name hidden, the handler returning normally) every order of the three
\* steps remove(src), rewriteReferences(oldId, newId), append(newId, dst)
\* ends in the facts.pl and the known set the handler ends in.
C8_OrderIndependent ==
    ( /\ RenamedWithin /\ ~raised
      /\ ~ignore(ev.src.name) /\ ~ignore(ev.dest.name) )
    => \A o \in StepOrders :
          LET r == RenameInOrder(Prev, o, ev.src.name, ev.dest.name)
          IN  r.facts = facts /\ r.known = known

\* The last event was a file moved into / out of the watched directory.
MovedIn ==
    /\ ev.type = "moved" /\ ~ev.is_directory
    /\ ev.src.parent # KNOWLEDGE_DIR /\ ev.dest.parent = KNOWLEDGE_DIR
MovedOut ==
    /\ ev.type = "moved" /\ ~ev.is_directory
    /\ ev.src.parent = KNOWLEDGE_DIR /\ ev.dest.parent # KNOWLEDGE_DIR

\* The state after the last event, with the outcome of its handler.
Outcome == [facts |-> facts, exists |-> exists, known |-> known, raised |-> raised]

\* C9: a Renamed event with only dst inside the watched directory has
\* exactly the effect (on facts.pl, on known, and in raising or not) of
\* Created(dst), one with only src inside exactly the effect of
\* Deleted(src), and in both cases every rel( line of the file is a rel(
\* line of the file before, in the same order: none is rewritten.
C9_MoveInOut ==
    /\ MovedIn =>
         /\ Outcome = on_created(Prev, Event("created", FALSE, ev.dest, ev.dest))
         /\ IsSubsequence(RelLinesOf(facts), RelLinesOf(prevFacts))
    /\ MovedOut =>
         /\ Outcome = on_deleted(Prev, Event("deleted", FALSE, ev.src, ev.src))
         /\ IsSubsequence(RelLinesOf(facts), RelLinesOf(prevFacts))

\* C9 witness: a file whose name outside had an id some rel line names
\* has been moved in under another name and got its note line, beside
\* that rel line.
C9_Witness ==
    /\ MovedIn /\ ~raised
    /\ FilesPath(ev.dest.name) \in known \ prevKnown
    /\ format_note_name(stem(ev.src.name)) # format_note_name(stem(ev.dest.name))
    /\ \E i \in DOMAIN prevFacts :
          /\ IsRelLine(prevFacts[i])
          /\ PatSearch(prevFacts[i], format_note_name(stem(ev.src.name)))

\* C10 (as claimed): an event concerning a hidden file ('._' or
\* '.DS_Store' prefix) changes neither facts.pl nor known.  It is stated
\* for the events that concern no other file the handler could add or
\* remove: Created and Deleted of a hidden file, and a Renamed event whose
\* src is hidden and whose dst is hidden or already known, or whose dst is
\* hidden and whose src is not known.
C10_HiddenInert ==
    ( /\ ev.type # "none" /\ ~ev.is_directory /\ ~raised
      /\ \/ ev.type \in {"created", "deleted"} /\ ignore(ev.src.name)
         \/ /\ ev.type = "moved"
            /\ \/ /\ ignore(ev.src.name)
                  /\ ignore(ev.dest.name) \/ FilesPath(ev.dest.name) \in prevKnown
               \/ /\ ignore(ev.dest.name)
                  /\ FilesPath(ev.src.name) \notin prevKnown )
    => facts = prevFacts /\ known = prevKnown

\* The file names in the watched directory the last event was about.
EventNames ==
    IF ev.type = "moved"
    THEN (IF ev.src.parent = KNOWLEDGE_DIR THEN {ev.src.name} ELSE {})
         \cup (IF ev.dest.parent = KNOWLEDGE_DIR THEN {ev.dest.name} ELSE {})
    ELSE {ev.src.name}

\* A line of facts.pl the last event was entitled to touch: the note line
\* of a path the event is about or, for a rename within the directory, a
\* rel( line holding the old Id as a token.
Entitled(line) ==
    \/ /\ IsNoteLine(line)
       /\ \E n \in EventNames : NOTE_RE_match(line).path = FilesPath(n)
    \/ /\ RenamedWithin
       /\ IsRelLine(line)
       /\ PatSearch(line, format_note_name(stem(ev.src.name)))

NotEntitled(line) == ~Entitled(line)

\* C11 (as claimed): frame of the watcher handlers.  After a Created,
\* Deleted or Renamed handler returned, every line of facts.pl that is
\* neither the note line of a path of the event nor a rel( line naming
\* the renamed Id (tag lines, note lines of other paths, other rel lines)
\* is still in the file, unchanged and in the same relative order.  It is
\* stated for events about files that are not hidden.
C11_OtherLinesKept ==
    ( /\ Handled
      /\ \A n \in EventNames : ~ignore(n) )
    => IsSubsequence(SelectSeq(prevFacts, NotEntitled), facts)

\* ---------------------------------------------- reconciler properties
\* The last step was a pass of the reconciler's loop that got both query
\* results.
Ticked == tk.kind \in {NOOP, SYNCED, FAILED}

\* The nodes and relationships the last pass got from the store.
CurrentNodes == query_nodes(tk.store)
CurrentRels == query_relationships(tk.store)

\* C12 (as claimed): reconciler convergence.  When a pass of the loop
\* follows a pass that processed the store's state (completed, with no
\* change of the store by another client in between), it changes no file
\* under ROOT, does not write facts.pl and does not write the store, also
\* when the earlier pass had to synthesize paths.
C12_Convergence ==
    ( /\ tk.kind \in {NOOP, SYNCED}
      /\ tk.after_tick )
    => /\ fs = tk.fs
       /\ ~tk.wrote
       /\ store = tk.store

\* The path the reconciler materializes a node with data d at: the path
\* of the store, or the synthesized one when the store has none.
MaterialPath(id, d) == IF Truthy(d.path) THEN d.path ELSE SynthPath(id)

\* The last pass replaced the snapshot and facts.pl could be written.
Resynthesized == tk.kind = SYNCED /\ ~tk.write_failed

\* C13 (as claimed): after a pass that detected a change, facts.pl holds
\* exactly one note line for each current node, with the node's path of
\* the store or, for a node without one, the path synthesized and written
\* back in that pass; and every note line of the file is such a line.
C13_NoteLinePerNode ==
    Resynthesized
    => /\ \A id \in DOMAIN CurrentNodes :
             Cardinality({ i \in DOMAIN facts :
                             facts[i] = NoteFact(id, MaterialPath(id, CurrentNodes[id])) }) = 1
       /\ \A i \in DOMAIN facts :
             IsNoteLine(facts[i])
             => \E id \in DOMAIN CurrentNodes :
                   facts[i] = NoteFact(id, MaterialPath(id, CurrentNodes[id]))

\* The nodes of the snapshot and of the last pass's query, other than id,
\* that have path p.
OthersAt(id, p) ==
    { i \in DOMAIN tk.last.nodes \ {id} : tk.last.nodes[i].path = p }
    \cup { i \in DOMAIN CurrentNodes \ {id} : MaterialPath(i, CurrentNodes[i]) = p }

\* C14 (as claimed): rename materialization.  For a node of the snapshot
\* with path p whose path is now q # p (no other node being at p or q):
\* if a file was at p and none at q, the file formerly at p is at q after
\* the pass and no file is at p; if a file was at q, the files at p and q
\* are as they were.
C14_RenameMaterialized ==
    tk.kind = SYNCED
    => \A id \in DOMAIN tk.last.nodes \cap DOMAIN CurrentNodes :
          LET p == tk.last.nodes[id].path
              q == CurrentNodes[id].path
          IN  ( /\ Truthy(p) /\ Truthy(q) /\ q # p
                /\ OthersAt(id, p) = {} /\ OthersAt(id, q) = {}
                /\ path_exists(tk.fs, p) )
              => IF ~path_exists(tk.fs, q)
                 THEN /\ path_exists(fs, q)
                      /\ fs[q] = tk.fs[p]
                      /\ ~path_exists(fs, p)
                 ELSE /\ path_exists(fs, q) /\ fs[q] = tk.fs[q]
                      /\ path_exists(fs, p) /\ fs[p] = tk.fs[p]

\* C15 (as claimed): after a completed pass that detected a change of the
\* nodes, a file exists at the path of every node of the store, also when
\* another node with the same path was deleted from the store before the
\* pass.
C15_FileForEveryNode ==
    ( tk.kind = SYNCED /\ tk.nodes_changed )
    => \A id \in DOMAIN store.nodes : path_exists(fs, store.nodes[id].path)

\* C16 (as claimed): deletion.  For every id of the snapshot that is not
\* in the store any more, no file exists after the pass at the path
\* materialized for it: the path of the snapshot or, when the reconciler
\* synthesized its path, the synthesized one.
C16_DeletedUnmaterialized ==
    tk.kind = SYNCED
    => \A id \in DOMAIN tk.last.nodes \ DOMAIN CurrentNodes :
          ~path_exists(fs, MaterialPath(id, tk.last.nodes[id]))

\* C17: a pass in which a query of the store fails changes nothing: the
\* snapshot (nodes and relationships), the files, facts.pl and the store
\* are as before, so the next pass diffs against the same snapshot.
C17_UnreachableSkips ==
    tk.kind = SKIPPED
    => /\ last = tk.last
       /\ fs = tk.fs
       /\ facts = prevFacts /\ exists = prevExists
       /\ store = tk.store

\* C17 witness: a pass was skipped while a change of the nodes and of the
\* relationships was waiting to be synced.
C17_Witness ==
    /\ tk.kind = SKIPPED
    /\ query_nodes(store) # last.nodes
    /\ query_relationships(store) # last.rels
    /\ last.nodes # EmptyMap

\* C18 (as claimed): a pass whose materialization or whose write of
\* facts.pl failed leaves the snapshot as it was, so that the same diff
\* is retried by the next pass.
C18_FailureKeepsSnapshot ==
    ( Ticked /\ (tk.kind = FAILED \/ tk.write_failed) )
    => last = tk.last

\* The elements of a set of tuples of strings in ascending order.
Ascending(S) ==
    CHOOSE o \in Orders(S) :
        \A i, j \in DOMAIN o : i < j => TupleLess(o[i], o[j])

\* The file of a snapshot: the two directives and an empty line, the note
\* lines by ascending Id, an empty line if there are nodes and
\* relationships, the rel lines by ascending (fromId, toId, type).
Canonical(nodes, rels) ==
    LET ids == Ascending({ <<id>> : id \in DOMAIN nodes })
        rs  == Ascending(rels)
    IN  <<DirectiveNote, DirectiveRel, <<>>>>
        \o [i \in DOMAIN ids |-> NoteFact(ids[i][1], nodes[ids[i][1]].path)]
        \o (IF DOMAIN nodes # {} /\ rels # {} THEN << <<>> >> ELSE <<>>)
        \o [i \in DOMAIN rs |-> RelLine(rs[i][1], rs[i][2], rel_label(rs[i][3]))]

\* C19: resynthesis determinism.  Whatever order the node map and the
\* relationship set of a snapshot are iterated in, _sync_facts_pl builds
\* the same lines: the note lines sorted by Id, then the rel lines sorted
\* by (fromId, toId, type); it is the file a pass writes, and
\* resynthesizing the same snapshot again writes nothing.
C19_ResynthesisDeterministic ==
    tk.kind = SYNCED
    => \A o \in Orders(DOMAIN CurrentNodes), ro \in Orders(CurrentRels) :
          /\ facts_lines(CurrentNodes, o, ro) = Canonical(CurrentNodes, CurrentRels)
          /\ tk.wrote => facts = Canonical(CurrentNodes, CurrentRels)
          /\ tk.wrote =>
               ~sync_facts_pl([facts |-> facts, exists |-> exists],
                              CurrentNodes, o, ro, FALSE).wrote

\* C19 witness: a pass wrote the file of a snapshot with two nodes and
\* two relationships.
C19_Witness ==
    /\ tk.kind = SYNCED /\ tk.wrote
    /\ Cardinality(DOMAIN CurrentNodes) = 2
    /\ Cardinality(CurrentRels) = 2

\* C20 (as claimed): a handler that raised does not stop event
\* processing: further events can still be delivered to their handlers.
C20_FailureDoesNotStop ==
    ( raised /\ nEvents < MaxEvents ) => ENABLED Next

\* ------------------------------------------------ function properties
\* The Id grammar [a-z][a-z0-9_]*.
IsId(s) ==
    /\ s # <<>>
    /\ LOWERCASE(s[1])
    /\ \A i \in DOMAIN s : LOWERCASE(s[i]) \/ s[i] \in Digits \/ s[i] = "_"

\* normalize has been called, on a stem that is not empty.
Normalized == fn.op = "normalize" /\ fn.results # <<>>
NormalizedNonEmpty == Normalized /\ fn.stem # <<>>

\* C21: normalize is total over non-empty stems and its result matches
\* the Id grammar: called on a non-empty stem, the watcher's and the
\* reconciler's normaliser raise nothing and return a token of
\* [a-z][a-z0-9_]*.
C21_NormalizeTotal ==
    NormalizedNonEmpty =>
        \A i \in DOMAIN fn.results :
            /\ ~fn.results[i].watcher.raises
            /\ IsId(fn.results[i].watcher.value)
            /\ ~fn.results[i].reconciler.raises
            /\ IsId(fn.results[i].reconciler.value)

C30_RoundTrip ==
    (fn.op = "denormalize" /\ fn.results # <<>>) =>
        \A i \in DOMAIN fn.results : fn.results[i].back = Returned(fn.id)

\* The leading run of word characters of s.
RECURSIVE WordRun(_)
WordRun(s) ==
    IF s = <<>> \/ ~IsWordChar(Head(s)) THEN <<>>
    ELSE <<Head(s)>> \o WordRun(Tail(s))

\* line with every whole token old (a maximal run of word characters
\* equal to old) replaced by new.
RECURSIVE ReplaceTokens(_, _, _)
ReplaceTokens(line, old, new) ==
    IF line = <<>> THEN <<>>
    ELSE IF ~IsWordChar(Head(line))
         THEN <<Head(line)>> \o ReplaceTokens(Tail(line), old, new)
         ELSE LET tok == WordRun(line)
              IN  (IF tok = old THEN new ELSE tok)
                      \o ReplaceTokens(From(line, Len(tok) + 1), old, new)

\* What rewriteReferences is to make of a file.
Rewritten(lines, old, new) ==
    [i \in DOMAIN lines |->
        IF StartsWith(lines[i], <<"r","e","l","(">>)
        THEN ReplaceTokens(lines[i], old, new)
        ELSE lines[i]]

UpdatedRels == fn.op = "update_rels" /\ fn.results # <<>>

\* C25: rewriteReferences(oldId, newId) changes only the lines that begin
\* with rel(, in which it replaces every whole-token occurrence of oldId
\* by newId; an identifier that merely contains oldId is not altered and
\* every other line is written back unchanged.  Both implementations.
C25_RewriteReferences ==
    UpdatedRels =>
        \A i \in DOMAIN fn.results :
            /\ fn.results[i].watcher = Rewritten(fn.lines, fn.old, fn.new)
            /\ fn.results[i].knowledge = Rewritten(fn.lines, fn.old, fn.new)

\* The content _sync_facts_pl generated in the last call, the text of the
\* file it found and the text of the content.
Generated == facts_lines(fn.current_nodes, fn.order, fn.rel_order)
FoundText == IF fn.file.exists THEN FileText(fn.file.facts) ELSE <<>>
GeneratedText == FileText(Generated)

\* resynthesize has been called on a file that can be written.
Resynthesized_ == fn.op = "resynthesize" /\ fn.results # <<>> /\ ~fn.write_down

\* What resynthesize is to do when `differ` says whether the generated
\* content differs from the current one: no write and the file as it
\* was when they are equal, exactly the generated content when they
\* differ.
WritesIff(differ) ==
    \A i \in DOMAIN fn.results :
        /\ fn.results[i].wrote <=> differ
        /\ ~differ => /\ fn.results[i].facts = fn.file.facts
                      /\ fn.results[i].exists = fn.file.exists
        /\ differ => /\ fn.results[i].exists
                     /\ fn.results[i].facts = Generated
                     /\ \A k \in DOMAIN fn.results[i].facts :
                           ~StartsWith(fn.results[i].facts[k], <<"t","a","g","(">>)

NothingChanged ==
    /\ Ticked
    /\ CurrentNodes = tk.last.nodes
    /\ CurrentRels = tk.last.rels

\* C22: a pass whose queried node map and relationship set both equal the
\* snapshot is a no-op: the files, facts.pl, the store and the snapshot
\* are after it what they were before it.
C22_UnchangedIsNoOp ==
    NothingChanged
    => /\ fs = tk.fs
       /\ facts = prevFacts /\ exists = prevExists
       /\ store = tk.store
       /\ last = tk.last

\* C22 witness: such a pass, made while the file of a node was missing
\* and facts.pl was not the file of the snapshot.
C22_Witness ==
    /\ NothingChanged
    /\ \E id \in DOMAIN CurrentNodes :
          /\ Truthy(CurrentNodes[id].path)
          /\ ~path_exists(tk.fs, CurrentNodes[id].path)
    /\ (~prevExists \/ prevFacts # Canonical(CurrentNodes, CurrentRels))

\* C23: path write-back is write-once.  A pass runs SET n.path for a node
\* only when the node's path in the store is unset, and once per node; the
\* path the store has for a node is never changed by a pass; so a pass
\* that follows a write-back, the path still set, writes nothing for the
\* node.
C23_WriteOnce ==
    Ticked
    => /\ \A i \in DOMAIN tk.writes :
             /\ tk.writes[i][1] \in DOMAIN tk.store.nodes
             /\ ~Truthy(tk.store.nodes[tk.writes[i][1]].path)
             /\ \A j \in DOMAIN tk.writes :
                   tk.writes[j][1] = tk.writes[i][1] => j = i
       /\ \A id \in DOMAIN tk.store.nodes :
             Truthy(tk.store.nodes[id].path)
             => /\ id \in DOMAIN store.nodes
                /\ store.nodes[id].path = tk.store.nodes[id].path

\* C23 witness: a pass synced the files of a node again whose path an
\* earlier pass had written back, and wrote nothing to the store.
C23_Witness ==
    /\ tk.kind = SYNCED /\ tk.after_tick /\ tk.nodes_changed
    /\ tk.writes = <<>>
    /\ \E id \in DOMAIN tk.store.nodes :
          /\ tk.store.nodes[id].path = SynthPath(id)
          /\ id \in DOMAIN tk.last.nodes
          /\ tk.last.nodes[id].path = None

\* ---------------------------------------------------- thread properties
\* C27: cooperative cancellation.  Once stop() has set the event no pass
\* begins, the wait between passes goes on no longer, and, the pass in
\* flight coming to an end, the loop ends and stop() returns.
C27_Cancellation ==
    /\ [](~th.late)
    /\ []((th.stop_event /\ th.pc = "wait") =>
            th.waited = (IF th.stopped_at = "wait" THEN th.waited_at_stop ELSE 0))
    /\ (<>[](th.pc = "try") \/ (th.stop_event ~> th.main = "returned"))

\* C27 witness: stop() returned after it had set the event during a pass.
C27_Witness == th.main = "returned" /\ th.stopped_at = "try"

\* ------------------------------------------------- directory properties
\* The paths of the files of KNOWLEDGE_DIR that are not hidden.
Visible == { FilesPath(n) : n \in { m \in Dir : ~ignore(m) } }

\* Every change of the directory has been delivered as an event and
\* handled, and there was one at least.
AllHandled == nEvents > 0 /\ pending = <<>> /\ ~raised

\* C26: convergence of KnownSet to the directory.  Whatever directory and
\* facts.pl the watcher was started on, once every change of the directory
\* has been delivered and handled, in order, the known set is the set of
\* the files in the directory that are not hidden.
C26_KnownConverges == AllHandled => known = Visible

\* ------------------------------------------ watcher beside reconciler
\* The indexes of the note lines of facts.pl for path p.
NoteLinesFor(p) ==
    { i \in DOMAIN facts : NOTE_RE_match(facts[i]).ok /\ NOTE_RE_match(facts[i]).path = p }

\* The store and the directory have stopped changing, every event has
\* been handled (one at least) and one further pass has been made.
Settled ==
    /\ tk.kind \in {NOOP, SYNCED}
    /\ pending = <<>>
    /\ nEvents > 0
    /\ ~raised

\* C29: under any interleaving of the watcher and the reconciler on the
\* same facts.pl, once all pending events and one further pass have been
\* processed, facts.pl holds one note line per path: a file the
\* reconciler created, reported to the watcher as Created, leaves no
\* second note line for its path.
C29_OneNoteLinePerPath ==
    (Settled /\ exists) =>
        \A p \in DOMAIN fs : Cardinality(NoteLinesFor(p)) <= 1

\* C32: a handler that raises leaves the state untouched.  When the
\* handler of a Created, Deleted or Renamed event raised because an id
\* could not be computed, facts.pl (its lines and whether it exists) and
\* the known set are exactly what they were when the event was delivered;
\* in particular a failed rename has not removed the line of src.
C32_RaiseLeavesState ==
    raised => /\ facts = prevFacts
              /\ exists = prevExists
              /\ known = prevKnown

\* C32 witness: the rename of a known file to a name whose stem
\* normalises to the empty string raised, while the note line of the
\* file was in facts.pl.
C32_Witness ==
    /\ raised
    /\ ev.type = "moved"
    /\ ev.src.parent = KNOWLEDGE_DIR /\ ev.dest.parent = KNOWLEDGE_DIR
    /\ ev.dest.name = nBad
    /\ FilesPath(ev.src.name) \in prevKnown
    /\ \E i \in DOMAIN prevFacts :
          /\ NOTE_RE_match(prevFacts[i]).ok
          /\ NOTE_RE_match(prevFacts[i]).path = FilesPath(ev.src.name)

\* The label of a rel line rel(from, to, 'label').: the text between its
\* first quote and the quote of its end ').
RelLabel(line) == SubSeq(line, IndexOf(line, "'") + 1, Len(line) - 3)

\* The labels of the rel lines of a file, in file order.
RelLabels(lines) ==
    [i \in DOMAIN RelLinesOf(lines) |-> RelLabel(RelLinesOf(lines)[i])]

\* C33 (as claimed): a rename preserves the label of every relationship.
\* After Renamed(src, dst) within the watched directory the rel lines of
\* facts.pl carry the labels they carried before, byte for byte and in
\* the same order, also when a label holds the old Id as a word or the
\* path of src.  It is stated for files that are not hidden and a handler
\* that returned normally.
C33_LabelsPreserved ==
    ( /\ RenamedWithin /\ ~raised
      /\ ~ignore(ev.src.name) /\ ~ignore(ev.dest.name) )
    => RelLabels(facts) = RelLabels(prevFacts)

\* C34 (as claimed): the two watchers are equivalent.  Started on the
\* same facts.pl and given the same Created, Deleted and Renamed events,
\* KnowledgeHandler of filewatcher.py and Handler of watch_knowledge.py
\* leave the same file content and the same known set, also when the
\* file holds a rel line that begins with a blank.
C34_WatchersEquivalent ==
    wk.module = WATCH_KNOWLEDGE =>
        /\ wk.facts = facts
        /\ wk.exists = exists
        /\ wk.known = known

\* The ids of the two endpoints of a rel line rel(from, to, 'label').
RelFrom(line) == SubSeq(line, 5, IndexOf(line, ",") - 1)
RelTo(line) ==
    LET rest == From(line, IndexOf(line, ",") + 2)
    IN  SubSeq(rest, 1, IndexOf(rest, ",") - 1)

\* Every id that is an endpoint of a rel( line of the file has a note
\* line.
NoDangling(lines) ==
    \A i \in DOMAIN lines :
        IsRelLine(lines[i]) =>
            /\ NoteLinesWithId(lines, RelFrom(lines[i])) >= 1
            /\ NoteLinesWithId(lines, RelTo(lines[i])) >= 1

\* C31 (as claimed): a rename introduces no dangling relationship
\* endpoint.  If every endpoint of a rel( line had a note line when
\* Renamed(src, dst) within the watched directory was delivered, every
\* endpoint has one after the handler returned, also when src is not
\* known and when another known file has the id of src.
C31_NoDanglingAfterRename ==
    ( /\ RenamedWithin /\ ~raised
      /\ NoDangling(prevFacts) )
    => NoDangling(facts)

====
